---------------------------- MODULE Spec2Model ----------------------------
(***************************************************************************)
(* A model of the work plan parser of Sinkii09Engine                       *)
(* (src/automation/core/workplan_parser.py): WorkPlanParser.parse_file,    *)
(* parse_content and the stages they call.                                 *)
(*                                                                         *)
(* Python strings are sequences of one-character strings, so that the      *)
(* regular expressions, strip(), lower(), split() and join() of the source *)
(* are computed character by character.  A Python dict is a function from  *)
(* keys to values; a Python list is a sequence.  An item is a record with  *)
(* the fields of the WorkPlanItem dataclass; an item's identity is its     *)
(* index in items, and sub_items, stack and hierarchy hold such indices.   *)
(***************************************************************************)
EXTENDS Integers, Sequences, FiniteSets, TLC

VARIABLES
    pc,         \* position in parse_file / parse_content / _build_hierarchy
    file,       \* what parse_file finds at file_path
    document,   \* the text handed to parse_content, as written (never changed)
    content,    \* parse_content's local `content`
    metadata,   \* parse_content's local `metadata`
    sections,   \* parse_content's local `sections`
    sec_i,      \* position of `for section in sections`
    items,      \* the items created so far (the heap of WorkPlanItem objects)
    item_i,     \* position of `for item in items` in _build_hierarchy
    stack,      \* _build_hierarchy's local `stack`
    hierarchy,  \* _build_hierarchy's local `hierarchy`
    pops,       \* how many times stack.pop() ran in this _build_hierarchy
    result,     \* the value returned to the caller
    exc,        \* the exception that propagated to the caller, or "none"
    scan,       \* the locals of the list scanner that is running: the position
                \* in `for line in lines`, in_..._section and the list built
    lists,      \* what the three list scanners of _parse_section have returned
    log,        \* one entry per turn of a scanner's loop (read by no code)
    returned,   \* what the calls of parse_file that have ended gave the caller
    frames,     \* the locals of the calls of parse_content that run on threads of
                \* their own, one frame per call
    stdout      \* what those calls' logger calls have printed (read by no code)

vars == <<pc, file, document, content, metadata, sections, sec_i, items,
          item_i, stack, hierarchy, pops, result, exc, scan, lists, log, returned,
          frames, stdout>>

---------------------------------------------------------------------------
(* Bounds of the model.                                                    *)

\* longest input of _build_hierarchy when it is checked on its own
MaxItems == 4
\* most lines of a document after its front matter
MaxLines == 4
\* most body lines of the section handed to _parse_section on its own
MaxBody == 3
\* most body lines of the section whose lists are scanned turn by turn
MaxScan == 3
\* most lines of the text handed to _split_into_sections on its own
MaxSplit == 4
\* most body lines of the section whose label line serves all three scanners
MaxLabelled == 3
\* most lines below the header of the section that holds other headers
MaxNested == 3

---------------------------------------------------------------------------
(* Python's str operations, on sequences of characters.                    *)

\* the alphabet's whitespace characters (str.strip() and the regex class \s)
IsSpace(c) == c \in {" ", "\t", "\n"}

ToLower ==
    [A |-> "a", B |-> "b", C |-> "c", D |-> "d", E |-> "e", F |-> "f",
     G |-> "g", H |-> "h", I |-> "i", J |-> "j", K |-> "k", L |-> "l",
     M |-> "m", N |-> "n", O |-> "o", P |-> "p", Q |-> "q", R |-> "r",
     S |-> "s", T |-> "t", U |-> "u", V |-> "v", W |-> "w", X |-> "x",
     Y |-> "y", Z |-> "z"]

\* str.lower()
Lower(s) == [i \in 1..Len(s) |-> IF s[i] \in DOMAIN ToLower THEN ToLower[s[i]] ELSE s[i]]

\* s[from:] in Python, with from a 1-based index here
From(s, from) == SubSeq(s, from, Len(s))

\* p occurs in s at index i
StartsWithAt(s, p, i) ==
    /\ i >= 1
    /\ i + Len(p) - 1 <= Len(s)
    /\ \A k \in 1..Len(p) : s[i + k - 1] = p[k]

\* str.startswith(p)
StartsWith(s, p) == StartsWithAt(s, p, 1)

\* `p in s`
Contains(s, p) == \E i \in 1..(Len(s) - Len(p) + 1) : StartsWithAt(s, p, i)

\* the least index >= from at which p occurs in s, 0 when there is none
RECURSIVE Find(_, _, _)
Find(s, p, from) ==
    IF from + Len(p) - 1 > Len(s) THEN 0
    ELSE IF StartsWithAt(s, p, from) THEN from
    ELSE Find(s, p, from + 1)

\* the least index >= i of a non-whitespace character, Len(s) + 1 when none
RECURSIVE SkipSpace(_, _)
SkipSpace(s, i) ==
    IF i > Len(s) THEN i
    ELSE IF IsSpace(s[i]) THEN SkipSpace(s, i + 1)
    ELSE i

\* the greatest index <= i of a non-whitespace character, 0 when none
RECURSIVE SkipSpaceBack(_, _)
SkipSpaceBack(s, i) ==
    IF i < 1 THEN 0
    ELSE IF IsSpace(s[i]) THEN SkipSpaceBack(s, i - 1)
    ELSE i

\* str.strip()
Strip(s) == SubSeq(s, SkipSpace(s, 1), SkipSpaceBack(s, Len(s)))

\* str.split(c), c one character: always at least one piece
RECURSIVE Split(_, _)
Split(s, c) ==
    LET i == Find(s, <<c>>, 1)
    IN  IF i = 0 THEN <<s>>
        ELSE <<SubSeq(s, 1, i - 1)>> \o Split(From(s, i + 1), c)

\* c.join(ls), c a string
RECURSIVE Join(_, _)
Join(ls, c) ==
    IF ls = <<>> THEN <<>>
    ELSE IF Len(ls) = 1 THEN ls[1]
    ELSE ls[1] \o c \o Join(Tail(ls), c)

\* Python's None, where a string is the other possibility
None == <<"None">>

\* the empty dict
EmptyDict == <<>>

\* a list scanner's locals as its loop is entered: `lines`, at its first line,
\* in_..._section = False and the empty list
NoScan == [i |-> 1, in_section |-> FALSE, out |-> <<>>]

\* no list scanner has returned yet
NoLists == [dependencies |-> <<>>, acceptance_criteria |-> <<>>, deliverables |-> <<>>]

\* {**a, **b}
Merge(a, b) ==
    [k \in (DOMAIN a) \cup (DOMAIN b) |-> IF k \in DOMAIN b THEN b[k] ELSE a[k]]

\* d.get(k, default)
Get(d, k, default) == IF k \in DOMAIN d THEN d[k] ELSE default

\* the string literals of _parse_section
KEY_description == <<"d","e","s","c","r","i","p","t","i","o","n">>
KEY_labels == <<"l","a","b","e","l","s">>
KEY_assignees == <<"a","s","s","i","g","n","e","e","s">>
KEY_milestone == <<"m","i","l","e","s","t","o","n","e">>
KEY_priority == <<"p","r","i","o","r","i","t","y">>
KEY_effort == <<"e","f","f","o","r","t">>
KEY_estimated_effort == <<"e","s","t","i","m","a","t","e","d","_","e","f","f","o","r","t">>
STR_medium == <<"m","e","d","i","u","m">>

---------------------------------------------------------------------------
(* ItemType and WorkPlanItem.                                              *)

EPIC == "epic"
ISSUE == "issue"
TASK == "task"
SUBTASK == "subtask"
ItemType == {EPIC, ISSUE, TASK, SUBTASK}
\* `return None` of _determine_item_type
NoItemType == "None"

\* the dataclass constructor; origin is the number of the section the item was
\* created from (0 for an item that no section produced), which no code reads
WorkPlanItem(title, item_type, description, labels, assignees, milestone, priority, estimated_effort, dependencies, acceptance_criteria, deliverables, item_metadata, origin) ==
    [title |-> title, item_type |-> item_type, description |-> description,
     labels |-> labels, assignees |-> assignees, milestone |-> milestone,
     priority |-> priority, estimated_effort |-> estimated_effort,
     dependencies |-> dependencies, acceptance_criteria |-> acceptance_criteria,
     deliverables |-> deliverables, sub_items |-> <<>>,
     metadata |-> item_metadata, github_number |-> None, notion_id |-> None,
     origin |-> origin]

\* WorkPlanItem(title=..., item_type=...) with every other field at its default
DefaultItem(title, item_type) ==
    WorkPlanItem(title, item_type, <<>>, <<>>, <<>>, None,
                 STR_medium, None, <<>>, <<>>, <<>>,
                 EmptyDict, 0)

---------------------------------------------------------------------------
(* The patterns and keyword lists of WorkPlanParser.__init__.              *)

epic_keywords ==
    {<<"e","p","i","c">>, <<"p","r","o","j","e","c","t">>,
     <<"i","n","i","t","i","a","t","i","v","e">>,
     <<"f","e","a","t","u","r","e"," ","s","e","t">>}

criteria_keywords ==
    {<<"a","c","c","e","p","t","a","n","c","e"," ","c","r","i","t","e","r","i","a">>,
     <<"s","u","c","c","e","s","s"," ","c","r","i","t","e","r","i","a">>,
     <<"c","o","m","p","l","e","t","i","o","n"," ","c","r","i","t","e","r","i","a">>}

deliverable_keywords ==
    {<<"d","e","l","i","v","e","r","a","b","l","e","s">>,
     <<"o","u","t","p","u","t","s">>, <<"a","r","t","i","f","a","c","t","s">>}

dependency_keywords ==
    {<<"d","e","p","e","n","d","e","n","c","i","e","s">>,
     <<"r","e","q","u","i","r","e","s">>, <<"d","e","p","e","n","d","s"," ","o","n">>,
     <<"p","r","e","r","e","q","u","i","s","i","t","e","s">>}

\* the number of '#' characters s starts with
RECURSIVE LeadingHashes(_, _)
LeadingHashes(s, i) ==
    IF i <= Len(s) /\ s[i] = "#" THEN LeadingHashes(s, i + 1) ELSE i - 1

\* header_pattern.match(line), r'^(#{1,6})\s+(.+)$', on a line without "\n":
\* 1 to 6 '#', then whitespace, then at least one more character (which may
\* itself be whitespace: \s+ gives one back to .+).  0 when there is no match,
\* else len(group(1)).
header_pattern_match(line) ==
    LET n == LeadingHashes(line, 1)
    IN  IF n >= 1 /\ n <= 6 /\ Len(line) >= n + 2 /\ IsSpace(line[n + 1])
        THEN n ELSE 0

\* header_match.group(2).strip(): whatever \s+ left to group(2), strip()
\* removes the whitespace around the title
header_title(line) == Strip(From(line, header_pattern_match(line) + 2))

\* metadata_pattern.search(content), r'^---\n(.*?)\n---' with DOTALL and without
\* MULTILINE: only at the start of the text, the body as short as possible.
\* The index of the "\n" that precedes the closing ---, 0 when there is no match.
metadata_pattern_search(text) ==
    IF StartsWith(text, <<"-","-","-","\n">>)
    THEN Find(text, <<"\n","-","-","-">>, 5)
    ELSE 0

\* match.group(1)
metadata_group1(text) == SubSeq(text, 5, metadata_pattern_search(text) - 1)

\* metadata_pattern.sub('', content)
metadata_pattern_sub(text) ==
    IF metadata_pattern_search(text) = 0 THEN text
    ELSE From(text, metadata_pattern_search(text) + 4)

\* the end of the line that holds index i: the index before the next "\n"
LineEnd(text, i) ==
    LET n == Find(text, <<"\n">>, i) IN IF n = 0 THEN Len(text) ELSE n - 1

\* the greatest index in from..i of a character other than "\n", 0 when none
RECURSIVE LastNonNewline(_, _, _)
LastNonNewline(text, from, i) ==
    IF i < from THEN 0
    ELSE IF text[i] # "\n" THEN i
    ELSE LastNonNewline(text, from, i - 1)

\* where group(2) of property_pattern starts when `\s*(.+)$` is tried at
\* index from: \s* takes all the whitespace, newlines included, and .+ starts
\* at the next character; when only whitespace is left, \s* gives characters
\* back until .+ can take one that is not a newline.  0 when nothing matches.
property_value_start(text, from) ==
    LET v == SkipSpace(text, from)
    IN  IF v <= Len(text) THEN v ELSE LastNonNewline(text, from, Len(text))

\* where `\*\*:` begins for the shortest key (.+?) that lets the rest of
\* property_pattern match, tried from index e on; the key may not hold "\n".
\* 0 when there is none.
RECURSIVE property_key_end(_, _)
property_key_end(text, e) ==
    IF e + 2 > Len(text) THEN 0
    ELSE IF StartsWithAt(text, <<"*","*",":">>, e)
            /\ property_value_start(text, e + 3) # 0 THEN e
    ELSE IF text[e] = "\n" THEN 0
    ELSE property_key_end(text, e + 1)

\* property_pattern, r'^\*\*(.+?)\*\*:\s*(.+)$' with MULTILINE, tried at index
\* p of text: [ok, key (group 1), value (group 2), end (last index matched)]
property_pattern_at(text, p) ==
    LET e == IF StartsWithAt(text, <<"*","*">>, p) /\ p + 2 <= Len(text)
                /\ text[p + 2] # "\n"
             THEN property_key_end(text, p + 3) ELSE 0
        v == IF e = 0 THEN 0 ELSE property_value_start(text, e + 3)
    IN  IF e = 0 THEN [ok |-> FALSE, key |-> <<>>, value |-> <<>>, end |-> 0]
        ELSE [ok |-> TRUE, key |-> SubSeq(text, p + 2, e - 1),
              value |-> SubSeq(text, v, LineEnd(text, v)),
              end |-> LineEnd(text, v)]

\* property_pattern.match(line)
property_pattern_match(line) == property_pattern_at(line, 1).ok

\* ^ under MULTILINE: the start of the text or just after a "\n"
IsLineStart(text, p) == p = 1 \/ (p > 1 /\ text[p - 1] = "\n")

\* property_pattern.finditer(content): the matches from index p on, in order
RECURSIVE property_pattern_finditer(_, _)
property_pattern_finditer(text, p) ==
    IF p > Len(text) THEN <<>>
    ELSE LET m == property_pattern_at(text, p)
         IN  IF IsLineStart(text, p) /\ m.ok
             THEN <<m>> \o property_pattern_finditer(text, m.end + 1)
             ELSE property_pattern_finditer(text, p + 1)

\* match.group(1).lower().replace(' ', '_')
property_key(raw) ==
    [i \in 1..Len(raw) |-> IF raw[i] = " " THEN "_" ELSE Lower(raw)[i]]

\* `for match in ...finditer(content): properties[key] = value`
RECURSIVE properties_of_matches(_, _)
properties_of_matches(matches, properties) ==
    IF matches = <<>> THEN properties
    ELSE LET m == Head(matches)
         IN  properties_of_matches(Tail(matches),
                 Merge(properties, (property_key(m.key) :> Strip(m.value))))

\* the loop that collects description_lines, from line i on
RECURSIVE description_lines(_, _)
description_lines(lines, i) ==
    IF i > Len(lines) THEN <<>>
    ELSE LET line == Strip(lines[i])
         IN  IF line = <<>> THEN description_lines(lines, i + 1)
             ELSE IF property_pattern_match(line) THEN description_lines(lines, i + 1)
             ELSE IF StartsWith(line, <<"#">>) THEN description_lines(lines, i + 1)
             ELSE IF StartsWith(line, <<"-">>) THEN <<>>
             ELSE <<line>> \o description_lines(lines, i + 1)

\* a version in which leading prose does not replace a Description property
ExtractPropertiesPropertyWins(text) ==
    LET properties == properties_of_matches(property_pattern_finditer(text, 1), EmptyDict)
        description == description_lines(Split(text, "\n"), 1)
    IN  IF description # <<>>
        THEN Merge((KEY_description :> Join(description, <<" ">>)), properties)
        ELSE properties

\* properties, with the description added when there is leading prose
_extract_properties(text) ==
    LET properties == properties_of_matches(property_pattern_finditer(text, 1), EmptyDict)
        description == description_lines(Split(text, "\n"), 1)
    IN  IF description # <<>>
        THEN Merge(properties, (KEY_description :> Join(description, <<" ">>)))
        ELSE properties

\* [item.strip() for item in pieces if item.strip()]
RECURSIVE strip_nonempty(_)
strip_nonempty(pieces) ==
    IF pieces = <<>> THEN <<>>
    ELSE IF Strip(Head(pieces)) = <<>> THEN strip_nonempty(Tail(pieces))
    ELSE <<Strip(Head(pieces))>> \o strip_nonempty(Tail(pieces))

_parse_list(value) ==
    IF value = <<>> THEN <<>> ELSE strip_nonempty(Split(value, ","))

\* any(keyword in line.lower() for keyword in keywords)
has_keyword(line, keywords) == \E keyword \in keywords : Contains(Lower(line), keyword)

\* a version that goes on collecting after a line that is no list item
BulletScanStepStaysIn(st, raw, keywords) ==
    LET line == Strip(raw)
    IN  IF has_keyword(line, keywords) THEN [st EXCEPT !.in_section = TRUE]
        ELSE IF ~st.in_section THEN st
        ELSE IF StartsWith(line, <<"-">>) /\ Strip(From(line, 2)) # <<>>
             THEN [st EXCEPT !.out = Append(@, Strip(From(line, 2)))]
        ELSE st

\* one turn of the loop of _extract_dependencies and of _extract_deliverables
\* on a line, from the scanner's state st = [in_section, out]
bullet_scan_step(st, raw, keywords) ==
    LET line == Strip(raw)
    IN  IF has_keyword(line, keywords) THEN [st EXCEPT !.in_section = TRUE]
        ELSE IF ~st.in_section THEN st
        ELSE IF StartsWith(line, <<"-">>)
             THEN IF Strip(From(line, 2)) # <<>>
                  THEN [st EXCEPT !.out = Append(@, Strip(From(line, 2)))]
                  ELSE st
        ELSE IF line # <<>> /\ ~StartsWith(line, <<" ">>)
             THEN [st EXCEPT !.in_section = FALSE]
        ELSE st

RECURSIVE bullet_scan(_, _, _, _)
bullet_scan(lines, i, st, keywords) ==
    IF i > Len(lines) THEN st.out
    ELSE bullet_scan(lines, i + 1, bullet_scan_step(st, lines[i], keywords), keywords)

_extract_dependencies(text) ==
    bullet_scan(Split(text, "\n"), 1, [in_section |-> FALSE, out |-> <<>>],
                dependency_keywords)

_extract_deliverables(text) ==
    bullet_scan(Split(text, "\n"), 1, [in_section |-> FALSE, out |-> <<>>],
                deliverable_keywords)

IsCheckbox(s, i) ==
    StartsWithAt(s, <<"["," ","]">>, i) \/ StartsWithAt(s, <<"[","x","]">>, i)

\* re.sub(r'^-\s*', '', line)
strip_dash(line) ==
    IF StartsWith(line, <<"-">>) THEN From(line, SkipSpace(line, 2)) ELSE line

\* re.sub(r'\[[ x]\]\s*', '', criterion), from index i on
RECURSIVE strip_checkboxes(_, _)
strip_checkboxes(s, i) ==
    IF i > Len(s) THEN <<>>
    ELSE IF IsCheckbox(s, i) THEN strip_checkboxes(s, SkipSpace(s, i + 3))
    ELSE <<s[i]>> \o strip_checkboxes(s, i + 1)

\* a version that leaves the checkbox marker in the criterion
CriteriaScanStepKeepsCheckbox(st, raw) ==
    LET line == Strip(raw)
        criterion == strip_dash(line)
    IN  IF has_keyword(line, criteria_keywords) THEN [st EXCEPT !.in_section = TRUE]
        ELSE IF ~st.in_section THEN st
        ELSE IF StartsWith(line, <<"-">>) \/ Contains(line, <<"["," ","]">>)
                \/ Contains(line, <<"[","x","]">>)
             THEN IF criterion # <<>>
                  THEN [st EXCEPT !.out = Append(@, Strip(criterion))]
                  ELSE st
        ELSE IF line # <<>> /\ ~StartsWith(line, <<" ">>)
             THEN [st EXCEPT !.in_section = FALSE]
        ELSE st

\* one turn of the loop of _extract_criteria
criteria_scan_step(st, raw) ==
    LET line == Strip(raw)
        criterion == strip_checkboxes(strip_dash(line), 1)
    IN  IF has_keyword(line, criteria_keywords) THEN [st EXCEPT !.in_section = TRUE]
        ELSE IF ~st.in_section THEN st
        ELSE IF StartsWith(line, <<"-">>) \/ Contains(line, <<"["," ","]">>)
                \/ Contains(line, <<"[","x","]">>)
             THEN IF criterion # <<>>
                  THEN [st EXCEPT !.out = Append(@, Strip(criterion))]
                  ELSE st
        ELSE IF line # <<>> /\ ~StartsWith(line, <<" ">>)
             THEN [st EXCEPT !.in_section = FALSE]
        ELSE st

RECURSIVE criteria_scan(_, _, _)
criteria_scan(lines, i, st) ==
    IF i > Len(lines) THEN st.out
    ELSE criteria_scan(lines, i + 1, criteria_scan_step(st, lines[i]))

_extract_criteria(text) ==
    criteria_scan(Split(text, "\n"), 1, [in_section |-> FALSE, out |-> <<>>])

---------------------------------------------------------------------------
(* Stage 1: _extract_metadata.                                             *)

\* a flow scalar as yaml.safe_load gives it: a double- or single-quoted
\* scalar without its quotes (no escapes inside), a plain scalar trimmed
yaml_scalar(s) ==
    LET t == Strip(s)
    IN  IF Len(t) >= 2 /\ t[1] = t[Len(t)] /\ t[1] \in {"\"", "'"}
        THEN SubSeq(t, 2, Len(t) - 1)
        ELSE t

\* the pairs of a block of `key: value` lines, from line i on
RECURSIVE yaml_pairs(_, _)
yaml_pairs(lines, i) ==
    IF i > Len(lines) THEN EmptyDict
    ELSE LET c == Find(lines[i], <<":"," ">>, 1)
         IN  IF Strip(lines[i]) = <<>> THEN yaml_pairs(lines, i + 1)
             ELSE Merge((SubSeq(lines[i], 1, c - 1) :> yaml_scalar(From(lines[i], c + 2))),
                        yaml_pairs(lines, i + 1))

\* yaml.safe_load(body) of PyYAML, for the plain block forms: an empty
\* document is None, an unclosed flow sequence is a YAMLError, lines of
\* `key: value` are a mapping, one plain scalar is a str, and a block that
\* mixes the two is a YAMLError.  A value is [kind, val].
yaml_safe_load(body) ==
    LET lines == Split(body, "\n")
        full == {i \in 1..Len(lines) : Strip(lines[i]) # <<>>}
        pairs == {i \in full : Find(lines[i], <<":"," ">>, 1) > 1}
    IN  IF full = {} THEN [kind |-> "None", val |-> <<>>]
        ELSE IF Contains(body, <<"[">>) /\ ~Contains(body, <<"]">>)
             THEN [kind |-> "YAMLError", val |-> <<>>]
        ELSE IF pairs = full THEN [kind |-> "dict", val |-> yaml_pairs(lines, 1)]
        ELSE IF pairs = {} /\ Cardinality(full) = 1
             THEN [kind |-> "str", val |-> yaml_scalar(body)]
        ELSE [kind |-> "YAMLError", val |-> <<>>]

\* a version that hands the decoder's failure on
ExtractMetadataNoExcept(text) ==
    IF metadata_pattern_search(text) = 0 THEN [kind |-> "dict", val |-> EmptyDict]
    ELSE yaml_safe_load(metadata_group1(text))

\* the value returned, as [kind, val]: `metadata or {}` turns None and the
\* empty values into {}, and hands on any other value, mapping or not
_extract_metadata(text) ==
    IF metadata_pattern_search(text) = 0 THEN [kind |-> "dict", val |-> EmptyDict]
    ELSE LET loaded == yaml_safe_load(metadata_group1(text))
         IN  IF loaded.kind = "YAMLError" THEN [kind |-> "dict", val |-> EmptyDict]
             ELSE IF loaded.kind = "None" \/ loaded.val = <<>>
                  THEN [kind |-> "dict", val |-> EmptyDict]
             ELSE loaded

---------------------------------------------------------------------------
(* Stage 2: _split_into_sections.  current_section is a sequence of no     *)
(* section (None) or one.  A section's `line` is the number of its header  *)
(* line in the text, which no code reads.                                  *)

\* the loop over lines, from line i on, and the `Add last section` after it
RECURSIVE split_scan(_, _, _, _)
split_scan(lines, i, secs, current_section) ==
    IF i > Len(lines) THEN secs \o current_section
    ELSE IF header_pattern_match(lines[i]) # 0
         THEN split_scan(lines, i + 1, secs \o current_section,
                  <<[level |-> header_pattern_match(lines[i]),
                     title |-> header_title(lines[i]),
                     content |-> <<>>, line |-> i]>>)
    ELSE IF current_section # <<>>
         THEN split_scan(lines, i + 1, secs,
                  <<[current_section[1] EXCEPT !.content = Append(@, lines[i])]>>)
    ELSE split_scan(lines, i + 1, secs, current_section)

\* a version in which a header deeper than the section it stands in does not
\* start a section: it stays, with the lines after it, in that section
RECURSIVE split_scan_nested(_, _, _, _)
split_scan_nested(lines, i, secs, current_section) ==
    IF i > Len(lines) THEN secs \o current_section
    ELSE IF header_pattern_match(lines[i]) # 0
            /\ (current_section = <<>>
                \/ header_pattern_match(lines[i]) <= current_section[1].level)
         THEN split_scan_nested(lines, i + 1, secs \o current_section,
                  <<[level |-> header_pattern_match(lines[i]),
                     title |-> header_title(lines[i]),
                     content |-> <<>>, line |-> i]>>)
    ELSE IF current_section # <<>>
         THEN split_scan_nested(lines, i + 1, secs,
                  <<[current_section[1] EXCEPT !.content = Append(@, lines[i])]>>)
    ELSE split_scan_nested(lines, i + 1, secs, current_section)

SplitNested(text) == split_scan_nested(Split(text, "\n"), 1, <<>>, <<>>)

\* a version without the `Add last section` after the loop
SplitWithoutLast(text) ==
    LET all == split_scan(Split(text, "\n"), 1, <<>>, <<>>)
    IN  SubSeq(all, 1, Len(all) - 1)

_split_into_sections(text) == split_scan(Split(text, "\n"), 1, <<>>, <<>>)

---------------------------------------------------------------------------
(* Stages 3 and 4: _determine_item_type and _parse_section.                *)

\* a version that classifies by keyword at any level
DetermineItemTypeAnyLevel(title, level) ==
    IF \E keyword \in epic_keywords : Contains(Lower(title), keyword) THEN EPIC
    ELSE IF Contains(Lower(title), <<"i","s","s","u","e">>)
            \/ Contains(Lower(title), <<"t","a","s","k">>) THEN ISSUE
    ELSE NoItemType

_determine_item_type(title, level) ==
    LET title_lower == Lower(title)
    IN  IF level = 1 /\ \E keyword \in epic_keywords : Contains(title_lower, keyword)
        THEN EPIC
        ELSE IF level = 3 /\ (Contains(title_lower, <<"i","s","s","u","e">>)
                              \/ Contains(title_lower, <<"t","a","s","k">>))
        THEN ISSUE
        ELSE NoItemType

\* `content = '\n'.join(section['content']).strip()`
section_text(section) == Strip(Join(section.content, <<"\n">>))

\* a version in which the document's keys win over the item's
ItemMetadataDocumentWins(global_metadata, properties) ==
    Merge(properties, global_metadata)

\* `metadata={**global_metadata, **properties}`, global_metadata a mapping
item_metadata(global_metadata, properties) == Merge(global_metadata, properties)

\* a version that looks the priority up under the key as it is written
ItemPriorityRawKey(properties) ==
    Get(properties, <<"P","r","i","o","r","i","t","y">>, STR_medium)

\* `priority=properties.get('priority', 'medium')`
item_priority(properties) == Get(properties, KEY_priority, STR_medium)

\* the WorkPlanItem(...) call of _parse_section
\* a version that reads milestone and priority from the metadata merged with
\* the document's front matter
SectionItemMerged(section, item_type, global_metadata) ==
    LET text == section_text(section)
        properties == _extract_properties(text)
        merged == item_metadata(global_metadata.val, properties)
    IN  WorkPlanItem(section.title, item_type,
            Get(properties, KEY_description, <<>>),
            _parse_list(Get(properties, KEY_labels, <<>>)),
            _parse_list(Get(properties, KEY_assignees, <<>>)),
            Get(merged, KEY_milestone, None),
            Get(merged, KEY_priority, STR_medium),
            Get(properties, KEY_effort, Get(properties, KEY_estimated_effort, None)),
            _extract_dependencies(text),
            _extract_criteria(text),
            _extract_deliverables(text),
            merged,
            section.line)

section_item(section, item_type, global_metadata) ==
    LET text == section_text(section)
        properties == _extract_properties(text)
    IN  WorkPlanItem(section.title, item_type,
            Get(properties, KEY_description, <<>>),
            _parse_list(Get(properties, KEY_labels, <<>>)),
            _parse_list(Get(properties, KEY_assignees, <<>>)),
            Get(properties, KEY_milestone, None),
            item_priority(properties),
            Get(properties, KEY_effort, Get(properties, KEY_estimated_effort, None)),
            _extract_dependencies(text),
            _extract_criteria(text),
            _extract_deliverables(text),
            item_metadata(global_metadata.val, properties),
            section.line)

\* a version that merges the metadata before it classifies the section
ParseSectionOutcomeMergeFirst(section, global_metadata) ==
    IF global_metadata.kind # "dict" THEN "TypeError"
    ELSE IF _determine_item_type(section.title, section.level) = NoItemType THEN "None"
    ELSE "item"

\* how _parse_section ends: "None" (return None), "item" (return item) or
\* "TypeError" (** applied to a global_metadata that is not a mapping)
parse_section_outcome(section, global_metadata) ==
    IF _determine_item_type(section.title, section.level) = NoItemType THEN "None"
    ELSE IF global_metadata.kind # "dict" THEN "TypeError"
    ELSE "item"

\* _parse_section returns None; `if item:` leaves items alone
SectionSkipped ==
    /\ pc = "parse_sections"
    /\ sec_i <= Len(sections)
    /\ parse_section_outcome(sections[sec_i], metadata) = "None"
    /\ sec_i' = sec_i + 1
    /\ UNCHANGED <<pc, file, document, content, metadata, sections, items,
                   item_i, stack, hierarchy, pops, result, exc,
                   scan, lists, log, returned,
                   frames, stdout>>

\* _parse_section returns an item; items.append(item)
SectionItem ==
    /\ pc = "parse_sections"
    /\ sec_i <= Len(sections)
    /\ parse_section_outcome(sections[sec_i], metadata) = "item"
    /\ items' = Append(items,
           section_item(sections[sec_i],
               _determine_item_type(sections[sec_i].title, sections[sec_i].level),
               metadata))
    /\ sec_i' = sec_i + 1
    /\ UNCHANGED <<pc, file, document, content, metadata, sections,
                   item_i, stack, hierarchy, pops, result, exc,
                   scan, lists, log, returned,
                   frames, stdout>>

\* _parse_section raises, and nothing between it and the caller catches
SectionRaises ==
    /\ pc = "parse_sections"
    /\ sec_i <= Len(sections)
    /\ parse_section_outcome(sections[sec_i], metadata) = "TypeError"
    /\ exc' = "TypeError"
    /\ pc' = "raised"
    /\ UNCHANGED <<file, document, content, metadata, sections, sec_i, items,
                   item_i, stack, hierarchy, pops, result,
                   scan, lists, log, returned,
                   frames, stdout>>

\* the for loop over sections ends; _build_hierarchy(items) is called
SectionsDone ==
    /\ pc = "parse_sections"
    /\ sec_i > Len(sections)
    /\ pc' = "build_hierarchy"
    /\ UNCHANGED <<file, document, content, metadata, sections, sec_i, items,
                   item_i, stack, hierarchy, pops, result, exc,
                   scan, lists, log, returned,
                   frames, stdout>>

---------------------------------------------------------------------------
(* parse_file and the first stages of parse_content.                       *)

\* `if not file_path.exists(): ... return []`
ParseFileMissing ==
    /\ pc = "parse_file"
    /\ file = "missing"
    /\ result' = <<>>
    /\ pc' = "done"
    /\ UNCHANGED <<file, document, content, metadata, sections, sec_i, items,
                   item_i, stack, hierarchy, pops, exc,
                   scan, lists, log, returned,
                   frames, stdout>>

\* open() or read() raises; `except Exception: ... return []`
ParseFileUnreadable ==
    /\ pc = "parse_file"
    /\ file = "unreadable"
    /\ result' = <<>>
    /\ pc' = "done"
    /\ UNCHANGED <<file, document, content, metadata, sections, sec_i, items,
                   item_i, stack, hierarchy, pops, exc,
                   scan, lists, log, returned,
                   frames, stdout>>

\* `content = f.read()`; `return self.parse_content(content)`
ParseFileRead ==
    /\ pc = "parse_file"
    /\ file = "readable"
    /\ content' = document
    /\ pc' = "extract_metadata"
    /\ UNCHANGED <<file, document, metadata, sections, sec_i, items,
                   item_i, stack, hierarchy, pops, result, exc,
                   scan, lists, log, returned,
                   frames, stdout>>

\* `metadata = self._extract_metadata(content)`
ExtractMetadata ==
    /\ pc = "extract_metadata"
    /\ metadata' = _extract_metadata(content)
    /\ pc' = "remove_metadata"
    /\ UNCHANGED <<file, document, content, sections, sec_i, items,
                   item_i, stack, hierarchy, pops, result, exc,
                   scan, lists, log, returned,
                   frames, stdout>>

\* `content = self.metadata_pattern.sub('', content).strip()`
RemoveMetadata ==
    /\ pc = "remove_metadata"
    /\ content' = Strip(metadata_pattern_sub(content))
    /\ pc' = "split"
    /\ UNCHANGED <<file, document, metadata, sections, sec_i, items,
                   item_i, stack, hierarchy, pops, result, exc,
                   scan, lists, log, returned,
                   frames, stdout>>

\* a version that keeps the items of the call before on the parser
KeptItems == items

\* `items = []`
NewItems == <<>>

\* `sections = self._split_into_sections(content)`; `items = []`
SplitIntoSections ==
    /\ pc = "split"
    /\ sections' = _split_into_sections(content)
    /\ sec_i' = 1
    /\ items' = NewItems
    /\ pc' = "parse_sections"
    /\ UNCHANGED <<file, document, content, metadata,
                   item_i, stack, hierarchy, pops, result, exc,
                   scan, lists, log, returned,
                   frames, stdout>>

---------------------------------------------------------------------------
(* _build_hierarchy and _should_be_parent.                                 *)

\* the parent_types table
parent_types ==
    [epic |-> {ISSUE, TASK, SUBTASK}, issue |-> {TASK, SUBTASK}, task |-> {SUBTASK}]

\* a table that also lists a kind among its own children
SameKindParentTypes ==
    [epic |-> {EPIC, ISSUE, TASK, SUBTASK}, issue |-> {ISSUE, TASK, SUBTASK},
     task |-> {TASK, SUBTASK}]

ShouldBeParentSameKind(potential_parent, child) ==
    /\ potential_parent.item_type \in DOMAIN SameKindParentTypes
    /\ child.item_type \in SameKindParentTypes[potential_parent.item_type]

\* `child.item_type in parent_types.get(potential_parent.item_type, [])`
_should_be_parent(potential_parent, child) ==
    /\ potential_parent.item_type \in DOMAIN parent_types
    /\ child.item_type \in parent_types[potential_parent.item_type]

\* a version that lets an item of any kind wait on the stack
CanHaveChildrenAny(item) == item.item_type \in ItemType

\* a version in which only an Issue waits on the stack
CanHaveChildrenIssue(item) == item.item_type = ISSUE

\* a version that lets a Task wait on the stack for its Subtasks
CanHaveChildrenTask(item) == item.item_type \in {EPIC, ISSUE, TASK}

\* `if item.item_type in [ItemType.EPIC, ItemType.ISSUE]`
CanHaveChildren(item) == item.item_type \in {EPIC, ISSUE}

\* stack[-1]
Top(s) == s[Len(s)]

\* a version that also files an attached item under its parent's title, as
\* the item's milestone
PlaceSetsMilestone(its, hier, stk, i) ==
    IF stk # <<>>
    THEN [items |-> [its EXCEPT ![Top(stk)].sub_items = Append(@, i),
                                ![i].milestone = its[Top(stk)].title],
          hierarchy |-> hier]
    ELSE [items |-> its, hierarchy |-> Append(hier, i)]

\* a version that starts the hierarchy anew with every top-level item
PlaceLatestRoot(its, hier, stk, i) ==
    IF stk # <<>>
    THEN [items |-> [its EXCEPT ![Top(stk)].sub_items = Append(@, i)],
          hierarchy |-> hier]
    ELSE [items |-> its, hierarchy |-> <<i>>]

\* a version that also lists an attached item among the roots
PlaceAlsoRoot(its, hier, stk, i) ==
    IF stk # <<>>
    THEN [items |-> [its EXCEPT ![Top(stk)].sub_items = Append(@, i)],
          hierarchy |-> Append(hier, i)]
    ELSE [items |-> its, hierarchy |-> Append(hier, i)]

\* a version that inserts at the front
PlaceInFront(its, hier, stk, i) ==
    IF stk # <<>>
    THEN [items |-> [its EXCEPT ![Top(stk)].sub_items = <<i>> \o @],
          hierarchy |-> hier]
    ELSE [items |-> its, hierarchy |-> <<i>> \o hier]

\* `if stack: stack[-1].sub_items.append(item) else: hierarchy.append(item)`:
\* the items and the hierarchy afterwards
Place(its, hier, stk, i) ==
    IF stk # <<>>
    THEN [items |-> [its EXCEPT ![Top(stk)].sub_items = Append(@, i)],
          hierarchy |-> hier]
    ELSE [items |-> its, hierarchy |-> Append(hier, i)]

\* `if not items: return []`
HierEmpty ==
    /\ pc = "build_hierarchy"
    /\ items = <<>>
    /\ result' = <<>>
    /\ pc' = "done"
    /\ UNCHANGED <<file, document, content, metadata, sections, sec_i, items,
                   item_i, stack, hierarchy, pops, exc,
                   scan, lists, log, returned,
                   frames, stdout>>

\* hierarchy = []; stack = []; the for loop is entered
HierEnter ==
    /\ pc = "build_hierarchy"
    /\ items # <<>>
    /\ hierarchy' = <<>>
    /\ stack' = <<>>
    /\ item_i' = 1
    /\ pops' = 0
    /\ pc' = "hier_loop"
    /\ UNCHANGED <<file, document, content, metadata, sections, sec_i, items,
                   result, exc,
                   scan, lists, log, returned,
                   frames, stdout>>

\* a version whose while loop looks at the top of the stack and leaves it there
HierPopLeavesTop ==
    /\ pc = "hier_loop"
    /\ item_i <= Len(items)
    /\ stack # <<>>
    /\ ~_should_be_parent(items[Top(stack)], items[item_i])
    /\ pops' = pops + 1
    /\ UNCHANGED <<pc, file, document, content, metadata, sections, sec_i,
                   items, item_i, stack, hierarchy, result, exc,
                   scan, lists, log, returned,
                   frames, stdout>>

\* one turn of `while stack and not self._should_be_parent(stack[-1], item)`
HierPop ==
    /\ pc = "hier_loop"
    /\ item_i <= Len(items)
    /\ stack # <<>>
    /\ ~_should_be_parent(items[Top(stack)], items[item_i])
    /\ stack' = SubSeq(stack, 1, Len(stack) - 1)
    /\ pops' = pops + 1
    /\ UNCHANGED <<pc, file, document, content, metadata, sections, sec_i,
                   items, item_i, hierarchy, result, exc,
                   scan, lists, log, returned,
                   frames, stdout>>

\* the rest of the loop body, once the while loop has ended
HierPlace ==
    /\ pc = "hier_loop"
    /\ item_i <= Len(items)
    /\ stack # <<>> => _should_be_parent(items[Top(stack)], items[item_i])
    /\ LET placed == Place(items, hierarchy, stack, item_i)
       IN  /\ items' = placed.items
           /\ hierarchy' = placed.hierarchy
    /\ stack' = IF CanHaveChildren(items[item_i]) THEN Append(stack, item_i) ELSE stack
    /\ item_i' = item_i + 1
    /\ UNCHANGED <<pc, file, document, content, metadata, sections, sec_i,
                   pops, result, exc,
                   scan, lists, log, returned,
                   frames, stdout>>

\* `return hierarchy`
HierReturn ==
    /\ pc = "hier_loop"
    /\ item_i > Len(items)
    /\ result' = hierarchy
    /\ pc' = "done"
    /\ UNCHANGED <<file, document, content, metadata, sections, sec_i, items,
                   item_i, stack, hierarchy, pops, exc,
                   scan, lists, log, returned,
                   frames, stdout>>

\* WorkPlanItem.to_dict, of the item at index i of the heap: the fields under
\* their keys, the kind as its value string, the sub_items converted in turn
RECURSIVE to_dict(_)
to_dict(i) ==
    [title |-> items[i].title,
     type |-> items[i].item_type,
     description |-> items[i].description,
     labels |-> items[i].labels,
     assignees |-> items[i].assignees,
     milestone |-> items[i].milestone,
     priority |-> items[i].priority,
     estimated_effort |-> items[i].estimated_effort,
     dependencies |-> items[i].dependencies,
     acceptance_criteria |-> items[i].acceptance_criteria,
     deliverables |-> items[i].deliverables,
     sub_items |-> [k \in 1..Len(items[i].sub_items) |-> to_dict(items[i].sub_items[k])],
     metadata |-> items[i].metadata,
     github_number |-> items[i].github_number,
     notion_id |-> items[i].notion_id]

\* _build_hierarchy called on any list of distinct fresh items of any kinds
KindSeqs == UNION {[1..n -> ItemType] : n \in 0..MaxItems}

InitHier ==
    /\ pc = "build_hierarchy"
    /\ file = "none"
    /\ document = <<>>
    /\ content = <<>>
    /\ metadata = [kind |-> "dict", val |-> EmptyDict]
    /\ sections = <<>>
    /\ sec_i = 1
    /\ \E ks \in KindSeqs : items = [i \in 1..Len(ks) |-> DefaultItem(<<>>, ks[i])]
    /\ item_i = 1
    /\ stack = <<>>
    /\ hierarchy = <<>>
    /\ pops = 0
    /\ result = <<>>
    /\ exc = "none"
    /\ scan = NoScan
    /\ lists = NoLists
    /\ log = <<>>
    /\ returned = <<>>
    /\ frames = <<>>
    /\ stdout = <<>>

NextHier == HierEmpty \/ HierEnter \/ HierPop \/ HierPlace \/ HierReturn

SpecHier == InitHier /\ [][NextHier]_vars

---------------------------------------------------------------------------
(* parse_file on the documents of a small grammar: an optional front-matter *)
(* block, then up to MaxLines lines.                                        *)

DocLines ==
    {<<"#"," ","E","p","i","c">>,            \* # Epic
     <<"#","#","#"," ","I","s","s","u","e">>, \* ### Issue
     <<"#","#"," ","I","s","s","u","e">>,     \* ## Issue
     <<"#"," ","N","o","t","e","s">>,         \* # Notes
     <<"t","e","x","t">>}                     \* text

FrontMatterBodies ==
    {<<"m","i","l","e","s","t","o","n","e",":"," ","S","1">>,  \* milestone: S1
     <<"t","e","x","t">>,                                      \* text
     <<"[">>,                                                  \* [
     <<>>}                                                     \* (an empty body)

FrontMatterBlock(body) == <<"-","-","-","\n">> \o body \o <<"\n","-","-","-","\n">>

FrontMatters == {<<>>} \cup {FrontMatterBlock(body) : body \in FrontMatterBodies}

LineSeqs == UNION {[1..n -> DocLines] : n \in 0..MaxLines}

Init ==
    /\ pc = "parse_file"
    /\ \/ /\ file \in {"missing", "unreadable"}
          /\ document = <<>>
       \/ /\ file = "readable"
          /\ \E fm \in FrontMatters, ls \in LineSeqs :
                 document = fm \o Join(ls, <<"\n">>)
    /\ content = <<>>
    /\ metadata = [kind |-> "dict", val |-> EmptyDict]
    /\ sections = <<>>
    /\ sec_i = 1
    /\ items = <<>>
    /\ item_i = 1
    /\ stack = <<>>
    /\ hierarchy = <<>>
    /\ pops = 0
    /\ result = <<>>
    /\ exc = "none"
    /\ scan = NoScan
    /\ lists = NoLists
    /\ log = <<>>
    /\ returned = <<>>
    /\ frames = <<>>
    /\ stdout = <<>>

Next ==
    \/ ParseFileMissing \/ ParseFileUnreadable \/ ParseFileRead
    \/ ExtractMetadata \/ RemoveMetadata \/ SplitIntoSections
    \/ SectionSkipped \/ SectionItem \/ SectionRaises \/ SectionsDone
    \/ HierEmpty \/ HierEnter \/ HierPop \/ HierPlace \/ HierReturn

Spec == Init /\ [][Next]_vars

---------------------------------------------------------------------------
(* parse_file called twice on one parser and one file: the caller keeps    *)
(* what the first call gave, as the forest of mappings [item.to_dict() for  *)
(* item in result] or as the exception raised, and calls again.  The       *)
(* variables of the model hold what the first call left in them.           *)

\* what the call that has ended gave the caller
Outcome ==
    IF pc = "raised" THEN [raised |-> exc, forest |-> <<>>]
    ELSE [raised |-> "none", forest |-> [k \in 1..Len(result) |-> to_dict(result[k])]]

\* the second call of parse_file(file_path)
ParseAgain ==
    /\ pc \in {"done", "raised"}
    /\ returned = <<>>
    /\ returned' = <<Outcome>>
    /\ exc' = "none"
    /\ pc' = "parse_file"
    /\ UNCHANGED <<file, document, content, metadata, sections, sec_i, items,
                   item_i, stack, hierarchy, pops, result, scan, lists, log,
                   frames, stdout>>

NextReparse == Next \/ ParseAgain

SpecReparse == Init /\ [][NextReparse]_vars

---------------------------------------------------------------------------
(* parse_file on the documents of one scenario: a front matter that sets   *)
(* the milestone to Sprint 1, a section `# Epic: Auth`, and the sections   *)
(* `### Issue 1: Login` and `### Issue 2: Logout`, each with the line      *)
(* `**Priority**: High` and an acceptance criteria list of two bullets.    *)
(* The documents differ in how the milestone is quoted, in the label of    *)
(* the list, in the bullets, and in where the priority line stands.        *)

ScenarioFrontMatters ==
    {FrontMatterBlock(<<"m","i","l","e","s","t","o","n","e",":"," ","\"","S","p","r","i","n","t"," ","1","\"">>),   \* milestone: "Sprint 1"
     FrontMatterBlock(<<"m","i","l","e","s","t","o","n","e",":"," ","'","S","p","r","i","n","t"," ","1","'">>),   \* milestone: 'Sprint 1'
     FrontMatterBlock(<<"m","i","l","e","s","t","o","n","e",":"," ","S","p","r","i","n","t"," ","1">>)}   \* milestone: Sprint 1

ScenarioPriorityLine == <<"*","*","P","r","i","o","r","i","t","y","*","*",":"," ","H","i","g","h">>   \* **Priority**: High

ScenarioLabels ==
    {<<"A","c","c","e","p","t","a","n","c","e"," ","C","r","i","t","e","r","i","a",":">>,   \* Acceptance Criteria:
     <<"*","*","A","c","c","e","p","t","a","n","c","e"," ","C","r","i","t","e","r","i","a","*","*",":">>,   \* **Acceptance Criteria**:
     <<"S","u","c","c","e","s","s"," ","c","r","i","t","e","r","i","a">>}   \* Success criteria

ScenarioBullets ==
    {<<<<"-"," ","a">>, <<"-"," ","b">>>>,     \* - a / - b
     <<<<" "," ","-"," ","["," ","]"," ","a">>, <<" "," ","-"," ","[","x","]"," ","b">>>>,     \*   - [ ] a /   - [x] b
     <<<<"-"," ","[","x","]"," ","d","o","n","e">>, <<"-"," ","[","x","]"," ","d","o","n","e">>>>}     \* - [x] done, twice

\* the bodies of an Issue section of the scenario
ScenarioBodies ==
    {<<ScenarioPriorityLine>> \o gap \o <<label>> \o bullets :
         gap \in {<<>>, <<<<>>>>}, label \in ScenarioLabels, bullets \in ScenarioBullets}
    \cup
    {<<label>> \o bullets \o gap \o <<ScenarioPriorityLine>> :
         gap \in {<<>>, <<<<>>>>}, label \in ScenarioLabels, bullets \in ScenarioBullets}

ScenarioDocuments ==
    {fm \o Join(<<<<"#"," ","E","p","i","c",":"," ","A","u","t","h">>>> \o <<<<"#","#","#"," ","I","s","s","u","e"," ","1",":"," ","L","o","g","i","n">>>> \o b1 \o <<<<"#","#","#"," ","I","s","s","u","e"," ","2",":"," ","L","o","g","o","u","t">>>> \o b2, <<"\n">>) :
         fm \in ScenarioFrontMatters, b1 \in ScenarioBodies, b2 \in ScenarioBodies}

InitScenario ==
    /\ pc = "parse_file"
    /\ file = "readable"
    /\ document \in ScenarioDocuments
    /\ content = <<>>
    /\ metadata = [kind |-> "dict", val |-> EmptyDict]
    /\ sections = <<>>
    /\ sec_i = 1
    /\ items = <<>>
    /\ item_i = 1
    /\ stack = <<>>
    /\ hierarchy = <<>>
    /\ pops = 0
    /\ result = <<>>
    /\ exc = "none"
    /\ scan = NoScan
    /\ lists = NoLists
    /\ log = <<>>
    /\ returned = <<>>
    /\ frames = <<>>
    /\ stdout = <<>>

\* the steps of parse_file that a document with three sections, all of them
\* items, and a front matter that is a mapping can take
NextScenario ==
    \/ ParseFileRead \/ ExtractMetadata \/ RemoveMetadata \/ SplitIntoSections
    \/ SectionItem \/ SectionsDone
    \/ HierEnter \/ HierPop \/ HierPlace \/ HierReturn

SpecScenario == InitScenario /\ [][NextScenario]_vars

---------------------------------------------------------------------------
(* parse_file on the documents that are one section `### Issue 1` with up   *)
(* to MaxNested lines below its header, among them headers of other levels  *)
(* and of the same level, with and without the words that make an item.     *)

NestedLines ==
    {<<"#","#","#","#"," ","A","c","c","e","p","t","a","n","c","e"," ","C","r","i","t","e","r","i","a">>,  \* #### Acceptance Criteria
     <<"#","#"," ","N","o","t","e","s">>,                                                                  \* ## Notes
     <<"#","#","#"," ","T","a","s","k"," ","l","i","s","t">>,                                              \* ### Task list
     <<"#"," ","E","p","i","c"," ","2">>,                                                                  \* # Epic 2
     <<"-"," ","["," ","]"," ","a">>,                                                                      \* - [ ] a
     <<"*","*","P","r","i","o","r","i","t","y","*","*",":"," ","H","i","g","h">>,                          \* **Priority**: High
     <<"p","r","o","s","e">>,                                                                              \* prose
     <<"D","e","p","e","n","d","e","n","c","i","e","s",":">>}                                              \* Dependencies:

NestedDocuments ==
    {Join(<<<<"#","#","#"," ","I","s","s","u","e"," ","1">>>> \o ls, <<"\n">>) :
        ls \in UNION {[1..n -> NestedLines] : n \in 0..MaxNested}}

InitNested ==
    /\ pc = "parse_file"
    /\ file = "readable"
    /\ document \in NestedDocuments
    /\ content = <<>>
    /\ metadata = [kind |-> "dict", val |-> EmptyDict]
    /\ sections = <<>>
    /\ sec_i = 1
    /\ items = <<>>
    /\ item_i = 1
    /\ stack = <<>>
    /\ hierarchy = <<>>
    /\ pops = 0
    /\ result = <<>>
    /\ exc = "none"
    /\ scan = NoScan
    /\ lists = NoLists
    /\ log = <<>>
    /\ returned = <<>>
    /\ frames = <<>>
    /\ stdout = <<>>

\* the steps of parse_file that a document without front matter whose first
\* section is an item can take
NextNested ==
    \/ ParseFileRead \/ ExtractMetadata \/ RemoveMetadata \/ SplitIntoSections
    \/ SectionSkipped \/ SectionItem \/ SectionsDone
    \/ HierEnter \/ HierPop \/ HierPlace \/ HierReturn

SpecNested == InitNested /\ [][NextNested]_vars

---------------------------------------------------------------------------
(* _split_into_sections on its own: parse_content hands it a text without  *)
(* whitespace at its ends, of up to MaxSplit lines.                         *)

SplitLines ==
    {<<"#"," ","A">>,   \* # A
     <<"#","#","#"," "," ","B"," ">>,   \* ###  B  (two spaces before the title, one after)
     <<"#","x">>,   \* #x (no whitespace after the #)
     <<"#","#","#","#","#","#","#"," ","x">>,   \* ####### x (seven #)
     <<" ","#"," ","y">>,   \*  # y (indented)
     <<"t","e","x","t">>,   \* text
     <<" ","t"," ">>,   \*  t  (whitespace on both sides)
     <<>>}   \* (a blank line)

SplitLineSeqs == UNION {[1..n -> SplitLines] : n \in 0..MaxSplit}

InitSplit ==
    /\ pc = "split"
    /\ file = "none"
    /\ document = <<>>
    /\ \E ls \in SplitLineSeqs : content = Strip(Join(ls, <<"\n">>))
    /\ metadata = [kind |-> "dict", val |-> EmptyDict]
    /\ sections = <<>>
    /\ sec_i = 1
    /\ items = <<>>
    /\ item_i = 1
    /\ stack = <<>>
    /\ hierarchy = <<>>
    /\ pops = 0
    /\ result = <<>>
    /\ exc = "none"
    /\ scan = NoScan
    /\ lists = NoLists
    /\ log = <<>>
    /\ returned = <<>>
    /\ frames = <<>>
    /\ stdout = <<>>

NextSplit == SplitIntoSections

SpecSplit == InitSplit /\ [][NextSplit]_vars

---------------------------------------------------------------------------
(* _parse_section on its own: one section and the document's metadata, as   *)
(* the loop of parse_content hands them over.  Either the header varies     *)
(* (every level, titles with and without the keywords) or the body and the  *)
(* metadata do.                                                             *)

HeaderLevels == 1..6

Titles ==
    {<<"E","p","i","c",":"," ","A","u","t","h">>,                      \* Epic: Auth
     <<"E","P","I","C">>,                                              \* EPIC
     <<"M","y"," ","P","r","o","j","e","c","t">>,                      \* My Project
     <<"F","e","a","t","u","r","e"," ","S","e","t">>,                  \* Feature Set
     <<"i","n","i","t","i","a","t","i","v","e">>,                      \* initiative
     <<"I","s","s","u","e"," ","O","v","e","r","v","i","e","w">>,      \* Issue Overview
     <<"s","u","b","t","a","s","k","i","n","g"," ","n","o","t","e","s">>, \* subtasking notes
     <<"O","v","e","r","v","i","e","w">>,                              \* Overview
     <<"E","p","i","c"," ","I","s","s","u","e">>}                      \* Epic Issue

BodyLines ==
    {<<"*","*","P","r","i","o","r","i","t","y","*","*",":"," ","H","i","g","h">>, \* **Priority**: High
     <<"*","*","P","r","i","o","r","i","t","y","*","*",":"," ","L","o","w">>,     \* **Priority**: Low
     <<"*","*","P","r","i","o","r","i","t","y","*","*",":">>,                     \* **Priority**:
     <<"P","r","i","o","r","i","t","y",":"," ","H","i","g","h">>,                 \* Priority: High
     <<"*","*","M","i","l","e","s","t","o","n","e","*","*",":"," ","S","2">>,     \* **Milestone**: S2
     <<"*","*","D","e","s","c","r","i","p","t","i","o","n","*","*",":"," ","D">>, \* **Description**: D
     <<"p","r","o","s","e">>,                                                     \* prose
     <<"#","x">>,                                                                 \* #x
     <<"-"," ","b">>,                                                             \* - b
     <<>>}                                                                        \* (a blank line)

BodySeqs == UNION {[1..n -> BodyLines] : n \in 0..MaxBody}

GlobalMetadatas ==
    {[kind |-> "dict", val |-> EmptyDict],
     [kind |-> "dict", val |-> (KEY_milestone :> <<"S","1">>)],
     [kind |-> "dict", val |-> (KEY_priority :> <<"l","o","w">> @@ KEY_description :> <<"G">>)],
     [kind |-> "str", val |-> <<"t","e","x","t">>]}

InitSection ==
    /\ pc = "parse_sections"
    /\ file = "none"
    /\ document = <<>>
    /\ content = <<>>
    /\ \/ /\ \E level \in HeaderLevels, title \in Titles :
                 sections = <<[level |-> level, title |-> title,
                               content |-> <<>>, line |-> 1]>>
          /\ metadata = [kind |-> "dict", val |-> EmptyDict]
       \/ /\ \E body \in BodySeqs :
                 sections = <<[level |-> 3, title |-> <<"I","s","s","u","e"," ","1">>,
                               content |-> body, line |-> 1]>>
          /\ metadata \in GlobalMetadatas
    /\ sec_i = 1
    /\ items = <<>>
    /\ item_i = 1
    /\ stack = <<>>
    /\ hierarchy = <<>>
    /\ pops = 0
    /\ result = <<>>
    /\ exc = "none"
    /\ scan = NoScan
    /\ lists = NoLists
    /\ log = <<>>
    /\ returned = <<>>
    /\ frames = <<>>
    /\ stdout = <<>>

NextSection == SectionSkipped \/ SectionItem \/ SectionRaises

SpecSection == InitSection /\ [][NextSection]_vars

---------------------------------------------------------------------------
(* The three list scanners on their own, one turn of a loop per step: in    *)
(* the WorkPlanItem(...) call of _parse_section, _extract_dependencies,     *)
(* _extract_criteria and _extract_deliverables run in this order over the   *)
(* lines of the section's text.  pc names the scanner that is running.      *)

ScanKinds == {"extract_dependencies", "extract_criteria", "extract_deliverables"}

\* the field of the item that a scanner's list goes to
scan_field(kind) ==
    CASE kind = "extract_dependencies" -> "dependencies"
      [] kind = "extract_criteria" -> "acceptance_criteria"
      [] kind = "extract_deliverables" -> "deliverables"

\* the keyword list a scanner looks for
scan_keywords(kind) ==
    CASE kind = "extract_dependencies" -> dependency_keywords
      [] kind = "extract_criteria" -> criteria_keywords
      [] kind = "extract_deliverables" -> deliverable_keywords

\* the order of evaluation of the three keyword arguments
scan_next(kind) ==
    CASE kind = "extract_dependencies" -> "extract_criteria"
      [] kind = "extract_criteria" -> "extract_deliverables"
      [] kind = "extract_deliverables" -> "scanned"

\* one turn of the loop of the scanner `kind`
scan_step(kind, st, raw) ==
    IF kind = "extract_criteria" THEN criteria_scan_step(st, raw)
    ELSE bullet_scan_step(st, raw, scan_keywords(kind))

\* `lines = content.split('\n')`, content the text of the section
scan_lines == Split(section_text(sections[1]), "\n")

\* one turn of `for line in lines` of the running scanner; the log keeps the
\* line's number, whether the scanner was in its section before the turn and
\* after it, and what the turn appended
ScanLine ==
    /\ pc \in ScanKinds
    /\ LET lines == scan_lines
           st == scan_step(pc, scan, lines[scan.i])
       IN  /\ scan.i <= Len(lines)
           /\ scan' = [st EXCEPT !.i = @ + 1]
           /\ log' = Append(log,
                  [kind |-> pc, line |-> scan.i, collecting |-> scan.in_section,
                   still |-> st.in_section,
                   appended |-> SubSeq(st.out, Len(scan.out) + 1, Len(st.out))])
    /\ UNCHANGED <<pc, file, document, content, metadata, sections, sec_i, items,
                   item_i, stack, hierarchy, pops, result, exc, lists, returned,
                   frames, stdout>>

\* the loop ends; `return dependencies` (criteria, deliverables), and the next
\* scanner is called
ScanReturn ==
    /\ pc \in ScanKinds
    /\ scan.i > Len(scan_lines)
    /\ lists' = [lists EXCEPT ![scan_field(pc)] = scan.out]
    /\ scan' = NoScan
    /\ pc' = scan_next(pc)
    /\ UNCHANGED <<file, document, content, metadata, sections, sec_i, items,
                   item_i, stack, hierarchy, pops, result, exc, log, returned,
                   frames, stdout>>

ScanBodyLines ==
    {<<"D","e","p","e","n","d","e","n","c","i","e","s",":">>,          \* Dependencies:
     <<"A","c","c","e","p","t","a","n","c","e"," ","C","r","i","t","e","r","i","a",":">>, \* Acceptance Criteria:
     <<"D","e","l","i","v","e","r","a","b","l","e","s",":">>,          \* Deliverables:
     <<"-"," ","a">>,                                                  \* - a
     <<" "," ","-"," ","["," ","]"," ","c">>,                          \*   - [ ] c
     <<"-"," ","[","x","]"," ","c">>,                                  \* - [x] c
     <<"-"," ","R","e","q","u","i","r","e","s"," ","s","u","c","c","e","s","s"," ","c","r","i","t","e","r","i","a">>, \* - Requires success criteria
     <<" "," ","m","o","r","e">>,                                      \*   more
     <<"p","r","o","s","e">>,                                          \* prose
     <<>>}                                                             \* (a blank line)

ScanBodies == UNION {[1..n -> ScanBodyLines] : n \in 0..MaxScan}

InitScan ==
    /\ pc = "extract_dependencies"
    /\ file = "none"
    /\ document = <<>>
    /\ content = <<>>
    /\ metadata = [kind |-> "dict", val |-> EmptyDict]
    /\ \E body \in ScanBodies :
           sections = <<[level |-> 3, title |-> <<"I","s","s","u","e"," ","1">>,
                         content |-> body, line |-> 1]>>
    /\ sec_i = 1
    /\ items = <<>>
    /\ item_i = 1
    /\ stack = <<>>
    /\ hierarchy = <<>>
    /\ pops = 0
    /\ result = <<>>
    /\ exc = "none"
    /\ scan = NoScan
    /\ lists = NoLists
    /\ log = <<>>
    /\ returned = <<>>
    /\ frames = <<>>
    /\ stdout = <<>>

NextScan == ScanLine \/ ScanReturn

SpecScan == InitScan /\ [][NextScan]_vars

---------------------------------------------------------------------------
(* The three list scanners on one body whose label line is a label for all  *)
(* three: it holds a dependency keyword, a deliverable keyword and a        *)
(* criteria keyword, and no other line holds any.                           *)

LabelledBodyLines ==
    {<<"R","e","q","u","i","r","e","s"," ","o","u","t","p","u","t","s",":"," ","s","u","c","c","e","s","s"," ","c","r","i","t","e","r","i","a">>,  \* Requires outputs: success criteria
     <<"-"," ","a">>,                                                                                                                              \* - a
     <<"["," ","]"," ","c">>,                                                                                                                      \* [ ] c
     <<"-"," ","["," ","]">>,                                                                                                                      \* - [ ]
     <<" "," ","m","o","r","e">>,                                                                                                                  \*   more
     <<"p","r","o","s","e">>,                                                                                                                      \* prose
     <<>>}                                                                                                                                         \* (a blank line)

LabelledBodies == UNION {[1..n -> LabelledBodyLines] : n \in 0..MaxLabelled}

InitLabelled ==
    /\ pc = "extract_dependencies"
    /\ file = "none"
    /\ document = <<>>
    /\ content = <<>>
    /\ metadata = [kind |-> "dict", val |-> EmptyDict]
    /\ \E body \in LabelledBodies :
           sections = <<[level |-> 3, title |-> <<"I","s","s","u","e"," ","1">>,
                         content |-> body, line |-> 1]>>
    /\ sec_i = 1
    /\ items = <<>>
    /\ item_i = 1
    /\ stack = <<>>
    /\ hierarchy = <<>>
    /\ pops = 0
    /\ result = <<>>
    /\ exc = "none"
    /\ scan = NoScan
    /\ lists = NoLists
    /\ log = <<>>
    /\ returned = <<>>
    /\ frames = <<>>
    /\ stdout = <<>>

SpecLabelled == InitLabelled /\ [][NextScan]_vars

---------------------------------------------------------------------------
(* Two calls of parse_content that run on threads of their own, on one     *)
(* parser or on two, one stage or one turn of a loop per step.  A frame    *)
(* holds the locals of one call: the parser it was called on (self), the   *)
(* text it was handed (document), content, metadata, sections, items (the  *)
(* WorkPlanItem objects the call has created), the locals of its           *)
(* _build_hierarchy, and what it gave its caller.  A parser holds the      *)
(* patterns and the keyword lists, which only __init__ assigns.  The one   *)
(* thing the calls share and write is the logger's output.                 *)

Calls == {1, 2}

CallDocuments ==
    LET epic == <<"#"," ","E","p","i","c">>
        issue == <<"#","#","#"," ","I","s","s","u","e">>
        notes == <<"#"," ","N","o","t","e","s">>
        text == <<"t","e","x","t">>
        high == <<"*","*","P","r","i","o","r","i","t","y","*","*",":"," ","H","i","g","h">>  \* *
        milestone == <<"m","i","l","e","s","t","o","n","e",":"," ","S","1">>
    IN  {FrontMatterBlock(milestone) \o Join(<<epic, issue, high, issue>>, <<"\n">>),
         Join(<<issue, epic, issue>>, <<"\n">>),
         FrontMatterBlock(text) \o Join(<<notes, issue>>, <<"\n">>),
         Join(<<notes, text>>, <<"\n">>),
         FrontMatterBlock(<<"[">>) \o epic}

\* the frame of parser.parse_content(text) as the call begins
NewFrame(parser, text) ==
    [self |-> parser, document |-> text, pc |-> "extract_metadata",
     content |-> text, metadata |-> [kind |-> "dict", val |-> EmptyDict],
     sections |-> <<>>, sec_i |-> 1, items |-> <<>>, item_i |-> 1,
     stack |-> <<>>, hierarchy |-> <<>>, result |-> <<>>, exc |-> "none"]

\* a version that keeps the metadata on the parser, as self.metadata: the
\* calls on one parser then work on one metadata
MetadataOnParser(t) == frames[t].self

\* the frame that holds the `metadata` call t works with: `metadata` is a
\* local of parse_content, so each call has its own
metadata_frame(t) == t

\* `metadata = self._extract_metadata(content)`; a block that fails to decode
\* is reported with logger.warning
CallExtractMetadata(t) ==
    /\ frames[t].pc = "extract_metadata"
    /\ frames' = [frames EXCEPT ![t].pc = "remove_metadata",
                                ![metadata_frame(t)].metadata =
                                    _extract_metadata(frames[t].content)]
    /\ stdout' = IF ExtractMetadataNoExcept(frames[t].content).kind = "YAMLError"
                 THEN Append(stdout, [call |-> t, level |-> "warning"])
                 ELSE stdout
    /\ UNCHANGED <<pc, file, document, content, metadata, sections, sec_i, items,
                   item_i, stack, hierarchy, pops, result, exc,
                   scan, lists, log, returned>>

\* `content = self.metadata_pattern.sub('', content).strip()`
CallRemoveMetadata(t) ==
    /\ frames[t].pc = "remove_metadata"
    /\ frames' = [frames EXCEPT ![t].pc = "split",
                                ![t].content = Strip(metadata_pattern_sub(@))]
    /\ UNCHANGED <<pc, file, document, content, metadata, sections, sec_i, items,
                   item_i, stack, hierarchy, pops, result, exc,
                   scan, lists, log, returned, stdout>>

\* `sections = self._split_into_sections(content)`; `items = []`
CallSplitIntoSections(t) ==
    /\ frames[t].pc = "split"
    /\ frames' = [frames EXCEPT ![t].pc = "parse_sections",
                                ![t].sections = _split_into_sections(frames[t].content),
                                ![t].sec_i = 1,
                                ![t].items = NewItems]
    /\ UNCHANGED <<pc, file, document, content, metadata, sections, sec_i, items,
                   item_i, stack, hierarchy, pops, result, exc,
                   scan, lists, log, returned, stdout>>

\* one turn of `for section in sections`: _parse_section returns None, or
\* returns an item that is appended, or raises
CallParseSection(t) ==
    /\ frames[t].pc = "parse_sections"
    /\ frames[t].sec_i <= Len(frames[t].sections)
    /\ LET section == frames[t].sections[frames[t].sec_i]
           global_metadata == frames[metadata_frame(t)].metadata
           outcome == parse_section_outcome(section, global_metadata)
       IN  frames' =
               IF outcome = "TypeError"
               THEN [frames EXCEPT ![t].pc = "raised", ![t].exc = "TypeError"]
               ELSE IF outcome = "None"
               THEN [frames EXCEPT ![t].sec_i = @ + 1]
               ELSE [frames EXCEPT ![t].sec_i = @ + 1,
                                   ![t].items = Append(@,
                                       section_item(section,
                                           _determine_item_type(section.title, section.level),
                                           global_metadata))]
    /\ UNCHANGED <<pc, file, document, content, metadata, sections, sec_i, items,
                   item_i, stack, hierarchy, pops, result, exc,
                   scan, lists, log, returned, stdout>>

\* the for loop over sections ends and _build_hierarchy(items) begins:
\* `if not items: return []`, else hierarchy = [] and stack = []
CallBuildHierarchy(t) ==
    /\ frames[t].pc = "parse_sections"
    /\ frames[t].sec_i > Len(frames[t].sections)
    /\ frames' = IF frames[t].items = <<>>
                 THEN [frames EXCEPT ![t].pc = "log_success", ![t].hierarchy = <<>>]
                 ELSE [frames EXCEPT ![t].pc = "hier_loop", ![t].hierarchy = <<>>,
                                     ![t].stack = <<>>, ![t].item_i = 1]
    /\ UNCHANGED <<pc, file, document, content, metadata, sections, sec_i, items,
                   item_i, stack, hierarchy, pops, result, exc,
                   scan, lists, log, returned, stdout>>

\* one turn of `while stack and not self._should_be_parent(stack[-1], item)`
CallHierPop(t) ==
    /\ frames[t].pc = "hier_loop"
    /\ frames[t].item_i <= Len(frames[t].items)
    /\ frames[t].stack # <<>>
    /\ ~_should_be_parent(frames[t].items[Top(frames[t].stack)],
                          frames[t].items[frames[t].item_i])
    /\ frames' = [frames EXCEPT ![t].stack = SubSeq(@, 1, Len(@) - 1)]
    /\ UNCHANGED <<pc, file, document, content, metadata, sections, sec_i, items,
                   item_i, stack, hierarchy, pops, result, exc,
                   scan, lists, log, returned, stdout>>

\* the rest of the loop body, once the while loop has ended
CallHierPlace(t) ==
    /\ frames[t].pc = "hier_loop"
    /\ frames[t].item_i <= Len(frames[t].items)
    /\ frames[t].stack # <<>> =>
           _should_be_parent(frames[t].items[Top(frames[t].stack)],
                             frames[t].items[frames[t].item_i])
    /\ LET f == frames[t]
           placed == Place(f.items, f.hierarchy, f.stack, f.item_i)
       IN  frames' = [frames EXCEPT
               ![t].items = placed.items,
               ![t].hierarchy = placed.hierarchy,
               ![t].stack = IF CanHaveChildren(f.items[f.item_i])
                            THEN Append(f.stack, f.item_i) ELSE f.stack,
               ![t].item_i = f.item_i + 1]
    /\ UNCHANGED <<pc, file, document, content, metadata, sections, sec_i, items,
                   item_i, stack, hierarchy, pops, result, exc,
                   scan, lists, log, returned, stdout>>

\* `return hierarchy`, back in parse_content
CallHierReturn(t) ==
    /\ frames[t].pc = "hier_loop"
    /\ frames[t].item_i > Len(frames[t].items)
    /\ frames' = [frames EXCEPT ![t].pc = "log_success"]
    /\ UNCHANGED <<pc, file, document, content, metadata, sections, sec_i, items,
                   item_i, stack, hierarchy, pops, result, exc,
                   scan, lists, log, returned, stdout>>

\* `logger.success(f"Parsed {len(items)} work plan items")`; `return items`
CallReturn(t) ==
    /\ frames[t].pc = "log_success"
    /\ stdout' = Append(stdout, [call |-> t, level |-> "success"])
    /\ frames' = [frames EXCEPT ![t].pc = "done", ![t].result = frames[t].hierarchy]
    /\ UNCHANGED <<pc, file, document, content, metadata, sections, sec_i, items,
                   item_i, stack, hierarchy, pops, result, exc,
                   scan, lists, log, returned>>

InitCalls ==
    /\ pc = "threads"
    /\ file = "none"
    /\ document = <<>>
    /\ content = <<>>
    /\ metadata = [kind |-> "dict", val |-> EmptyDict]
    /\ sections = <<>>
    /\ sec_i = 1
    /\ items = <<>>
    /\ item_i = 1
    /\ stack = <<>>
    /\ hierarchy = <<>>
    /\ pops = 0
    /\ result = <<>>
    /\ exc = "none"
    /\ scan = NoScan
    /\ lists = NoLists
    /\ log = <<>>
    /\ returned = <<>>
    /\ \E parser \in Calls, first \in CallDocuments, second \in CallDocuments :
           frames = <<NewFrame(1, first), NewFrame(parser, second)>>
    /\ stdout = <<>>

NextCalls ==
    \E t \in Calls :
        \/ CallExtractMetadata(t) \/ CallRemoveMetadata(t) \/ CallSplitIntoSections(t)
        \/ CallParseSection(t) \/ CallBuildHierarchy(t)
        \/ CallHierPop(t) \/ CallHierPlace(t) \/ CallHierReturn(t) \/ CallReturn(t)

SpecCalls == InitCalls /\ [][NextCalls]_vars

---------------------------------------------------------------------------
(* The program as it runs: one thread that takes its next step as long as *)
(* it has one.  The runs are those of parse_file on the documents, of      *)
(* _build_hierarchy on items of any kinds, and of the list scanners on the *)
(* bodies with a label line.  Fairness is asked of the steps of            *)
(* _build_hierarchy, whose while loop is the one loop of the parser that   *)
(* is not a loop over a list.                                              *)

InitRun == Init \/ InitHier \/ InitLabelled

NextRun == Next \/ NextScan

SpecRun == InitRun /\ [][NextRun]_vars /\ WF_vars(NextHier)

---------------------------------------------------------------------------
(* Properties of the forest that _build_hierarchy returns.                 *)

\* the elements of a sequence
Range(seq) == {seq[k] : k \in 1..Len(seq)}

\* Epic > Issue > Task > Subtask
Rank(t) == CASE t = EPIC -> 4 [] t = ISSUE -> 3 [] t = TASK -> 2 [] t = SUBTASK -> 1

\* the parent/child edges of the heap
Edges == {e \in (1..Len(items)) \X (1..Len(items)) : e[2] \in Range(items[e[1]].sub_items)}

\* the items reachable from i through at most n sub_items steps (n >= 1)
RECURSIVE Descendants(_, _)
Descendants(i, n) ==
    IF n = 0 THEN {}
    ELSE LET kids == Range(items[i].sub_items)
         IN  kids \cup UNION {Descendants(k, n - 1) : k \in kids}

\* how many times x occurs in seq
Occurrences(seq, x) == Cardinality({k \in 1..Len(seq) : seq[k] = x})

Returned == pc = "done" /\ exc = "none"

\* C1: in the forest returned by _build_hierarchy, for items of any kinds,
\* every parent/child edge has the child's kind strictly below the parent's
\* kind in the order Epic > Issue > Task > Subtask.
C1_KindOrdering ==
    Returned => \A e \in Edges :
        Rank(items[e[2]].item_type) < Rank(items[e[1]].item_type)

\* an Epic holding an Issue that holds a Task has been returned
C1_Witness ==
    /\ Returned
    /\ \E e, f \in Edges :
        /\ e[2] = f[1]
        /\ items[e[1]].item_type = EPIC
        /\ items[f[1]].item_type = ISSUE
        /\ items[f[2]].item_type = TASK

\* C3: what _build_hierarchy returns is a forest: no item is reachable from
\* itself through sub_items, every item that is not a root occurs in the
\* sub_items of exactly one item (once), and no root is anyone's child.
C3_Forest ==
    Returned => \A i \in 1..Len(items) :
        LET parents == {e \in Edges : e[2] = i}
        IN  /\ i \notin Descendants(i, Len(items))
            /\ i \notin Range(result) =>
                   /\ Cardinality(parents) = 1
                   /\ \A e \in parents : Occurrences(items[e[1]].sub_items, i) = 1
            /\ i \in Range(result) =>
                   /\ parents = {}
                   /\ Occurrences(result, i) = 1

\* a forest with two roots, one of them with two children, has been returned
C3_Witness ==
    /\ Returned
    /\ Len(result) >= 2
    /\ \E i \in Range(result) : Len(items[i].sub_items) >= 2

\* C4: after _build_hierarchy, for items of any kinds, only an Epic or an
\* Issue has a non-empty sub_items: a Task is never the parent of a Subtask
\* and a Subtask never has children.
C4_OnlyEpicIssueParents ==
    Returned => \A i \in 1..Len(items) :
        items[i].sub_items # <<>> => items[i].item_type \in {EPIC, ISSUE}

\* a Subtask that directly follows a Task has been placed
C4_Witness ==
    /\ Returned
    /\ \E i \in 1..(Len(items) - 1) :
        /\ items[i].item_type = TASK
        /\ items[i + 1].item_type = SUBTASK
        /\ \E e \in Edges : e[2] = i + 1

---------------------------------------------------------------------------
(* Properties of parse_file and parse_content.                             *)

\* the origins of the items of seq increase strictly
InDocumentOrder(seq) ==
    \A a, b \in 1..Len(seq) : a < b => items[seq[a]].origin < items[seq[b]].origin

\* C2: in the forest parse_content returns, the roots and the sub_items of
\* every parent are in the document order of the headers the items came from.
C2_OrderPreserved ==
    Returned =>
        /\ InDocumentOrder(result)
        /\ \A i \in 1..Len(items) : InDocumentOrder(items[i].sub_items)

\* two roots, the first of them with two children, have been returned
C2_Witness ==
    /\ Returned
    /\ Len(result) = 2
    /\ Len(items[result[1]].sub_items) = 2

\* the classification rule as the claim states it
C5_EpicWords ==
    {<<"e","p","i","c">>, <<"p","r","o","j","e","c","t">>,
     <<"i","n","i","t","i","a","t","i","v","e">>,
     <<"f","e","a","t","u","r","e"," ","s","e","t">>}

C5_IsEpic(level, title) ==
    level = 1 /\ \E w \in C5_EpicWords : Contains(Lower(title), w)

C5_IsIssue(level, title) ==
    /\ ~C5_IsEpic(level, title)
    /\ level = 3
    /\ \/ Contains(Lower(title), <<"i","s","s","u","e">>)
       \/ Contains(Lower(title), <<"t","a","s","k">>)

\* the section handed to _parse_section has been dealt with, without raising
SectionParsed == pc = "parse_sections" /\ sec_i = 2 /\ Len(sections) = 1

\* C5: a section becomes an Epic iff its level is 1 and its lower-cased title
\* contains 'epic', 'project', 'initiative' or 'feature set'; otherwise an
\* Issue iff its level is 3 and the lower-cased title contains 'issue' or
\* 'task'; otherwise it is None and no item is created for it.
C5_Classification ==
    SectionParsed =>
        LET level == sections[1].level
            title == sections[1].title
        IN  /\ C5_IsEpic(level, title) <=> (Len(items) = 1 /\ items[1].item_type = EPIC)
            /\ C5_IsIssue(level, title) <=> (Len(items) = 1 /\ items[1].item_type = ISSUE)
            /\ (~C5_IsEpic(level, title) /\ ~C5_IsIssue(level, title)) <=> items = <<>>

\* a level-2 section titled "Issue Overview" has been dropped
C5_Witness ==
    /\ SectionParsed
    /\ sections[1].level = 2
    /\ sections[1].title = <<"I","s","s","u","e"," ","O","v","e","r","v","i","e","w">>
    /\ items = <<>>

\* C6: whatever the text and its front matter, parse_content returns a list
\* and no exception reaches the caller.
C6_NoExceptionPropagates == exc = "none" /\ pc # "raised"

\* a front-matter block whose body fails to decode
C7_FailingBlock == FrontMatterBlock(<<"[">>)

\* the items _parse_section makes of the sections secs, from section i on
RECURSIVE C7_ItemsOf(_, _, _)
C7_ItemsOf(secs, i, global_metadata) ==
    IF i > Len(secs) THEN <<>>
    ELSE (IF parse_section_outcome(secs[i], global_metadata) = "item"
          THEN <<section_item(secs[i],
                     _determine_item_type(secs[i].title, secs[i].level),
                     global_metadata)>>
          ELSE <<>>) \o C7_ItemsOf(secs, i + 1, global_metadata)

\* C7: with a front-matter block whose body fails to decode, parsing goes on:
\* the metadata is the empty mapping, the block is removed from the text, and
\* the sections give the items the same document without the block gives.
C7_MalformedFrontMatter ==
    StartsWith(document, C7_FailingBlock) =>
        LET rest == From(document, Len(C7_FailingBlock) + 1)
        IN  /\ exc = "none" /\ pc # "raised"
            /\ pc \notin {"parse_file", "extract_metadata"} =>
                   metadata = [kind |-> "dict", val |-> EmptyDict]
            /\ pc \notin {"parse_file", "extract_metadata", "remove_metadata"} =>
                   content = Strip(rest)
            /\ pc = "build_hierarchy" =>
                   items = C7_ItemsOf(_split_into_sections(Strip(rest)), 1,
                                      [kind |-> "dict", val |-> EmptyDict])

\* a document with a failing block has been parsed into a non-empty forest
C7_Witness ==
    /\ StartsWith(document, C7_FailingBlock)
    /\ Returned
    /\ result # <<>>

\* no line of the text is a header that the claimed rule classifies
C8_NothingClassifies(text) ==
    \A line \in Range(Split(text, "\n")) :
        LET n == LeadingHashes(line, 1)
            title == Strip(From(line, n + 1))
        IN  ~(/\ n \in 1..6
              /\ Len(line) > n
              /\ IsSpace(line[n + 1])
              /\ C5_IsEpic(n, title) \/ C5_IsIssue(n, title))

\* C8: parse_content returns the empty sequence, without raising, for the empty
\* text, for a text without header lines and for a text none of whose sections
\* classifies; parse_file returns it for a missing or unreadable file.
C8_EmptyResults ==
    /\ file \in {"missing", "unreadable"} =>
           /\ pc \in {"parse_file", "done"}
           /\ exc = "none"
           /\ result = <<>>
    /\ (file = "readable" /\ C8_NothingClassifies(document)) =>
           /\ pc # "raised"
           /\ exc = "none"
           /\ items = <<>>
           /\ result = <<>>

\* a text with sections, none of them an item, and a front matter that is not
\* a mapping has been parsed
C8_Witness ==
    /\ file = "readable"
    /\ pc = "done"
    /\ result = <<>>
    /\ Len(sections) >= 2
    /\ metadata.kind = "str"

---------------------------------------------------------------------------
(* Properties of _parse_section.                                           *)

\* _parse_section has returned an item for the one section handed to it
ItemParsed == SectionParsed /\ Len(items) = 1

\* the matches of the property pattern in the section's text
C9_Matches == property_pattern_finditer(section_text(sections[1]), 1)

C9_MatchKeys ==
    LET matches == C9_Matches
    IN  {property_key(matches[k].key) : k \in 1..Len(matches)}

\* the values extracted for key k, in order
C9_Values(k) ==
    LET matches == C9_Matches
    IN  SelectSeq([j \in 1..Len(matches) |->
                      <<property_key(matches[j].key), Strip(matches[j].value)>>],
                  LAMBDA kv : kv[1] = k)

\* the leading prose of the section
C9_Prose == description_lines(Split(section_text(sections[1]), "\n"), 1)

C10_PriorityLineValues ==
    LET lines == Split(section_text(sections[1]), "\n")
    IN  {Strip(property_pattern_at(lines[j], 1).value) :
            j \in {j \in 1..Len(lines) :
                     /\ property_pattern_at(lines[j], 1).ok
                     /\ property_key(property_pattern_at(lines[j], 1).key) = KEY_priority}}

\* C10: an item's priority is the value of the bolded `**Priority**: value`
\* line of its own section when there is one, and 'medium' otherwise.
C10_PriorityOrDefault ==
    ItemParsed =>
        IF C10_PriorityLineValues # {}
        THEN items[1].priority \in C10_PriorityLineValues
        ELSE items[1].priority = STR_medium

---------------------------------------------------------------------------
(* Properties of the list scanners.                                        *)

\* all three scanners have returned
Scanned == pc = "scanned"

\* a line that starts with a bullet marker, indented or not
IsBulletLine(line) == StartsWith(Strip(line), <<"-">>)

\* a bullet line's text: the marker and the whitespace around it removed
BulletText(line) == Strip(From(Strip(line), 2))

\* a bullet line whose text starts with a checkbox marker, [ ] or [x]
IsCheckboxBullet(line) == IsBulletLine(line) /\ IsCheckbox(BulletText(line), 1)

\* the text that follows the checkbox marker of a checkbox bullet
CheckboxText(line) == Strip(From(BulletText(line), 4))

\* a line that starts with whitespace
IsIndented(line) == line # <<>> /\ IsSpace(line[1])

\* what the turns of the scanner `kind` have appended, in the order of the log
RECURSIVE Collected(_, _)
Collected(kind, k) ==
    IF k = 0 THEN <<>>
    ELSE Collected(kind, k - 1) \o (IF log[k].kind = kind THEN log[k].appended ELSE <<>>)

\* C11: for each of the three list kinds, while the scanner is collecting,
\* every line that starts with a bullet marker is appended to the kind's list
\* with its marker stripped, in the order of the lines and without
\* deduplication: no bullet line seen while collecting is dropped.
C11_BulletsCollected ==
    /\ \A k \in 1..Len(log) :
           LET line == scan_lines[log[k].line]
           IN  (log[k].collecting /\ IsBulletLine(line)) =>
                   /\ Len(log[k].appended) = 1
                   /\ log[k].appended[1] \in
                          {BulletText(line)} \cup
                          (IF IsCheckboxBullet(line) THEN {CheckboxText(line)} ELSE {})
    /\ Scanned => \A kind \in ScanKinds : lists[scan_field(kind)] = Collected(kind, Len(log))

\* a line that the claim has end a collection: non-empty, no bullet, not indented
C12_Terminates(line) ==
    Strip(line) # <<>> /\ ~IsBulletLine(line) /\ ~IsIndented(line)

\* C12: for each list kind, a collection entered at a keyword line ends
\* exactly at the first later line that is non-empty, not a bullet and not
\* indented: an empty line or an indented line that is no bullet leaves the
\* scanner collecting, so that the bullets after it are still collected.
C12_CollectionEnds ==
    \A k \in 1..Len(log) :
        LET line == scan_lines[log[k].line]
        IN  IF has_keyword(line, scan_keywords(log[k].kind)) THEN log[k].still
            ELSE IF log[k].collecting THEN log[k].still <=> ~C12_Terminates(line)
            ELSE ~log[k].still

C14_OneListPerLine ==
    \A j, k \in 1..Len(log) :
        (log[j].line = log[k].line /\ log[j].kind # log[k].kind) =>
            (log[j].appended = <<>> \/ log[k].appended = <<>>)

\* the section's text is a 'Dependencies' label line, then n bullet lines
\* (without checkboxes), then an unindented paragraph line, and no dependency
\* keyword from the paragraph on
C19_Shape(n) ==
    /\ Len(scan_lines) >= n + 2
    /\ Contains(Lower(scan_lines[1]), <<"d","e","p","e","n","d","e","n","c","i","e","s">>)
    /\ ~IsBulletLine(scan_lines[1])
    /\ \A j \in 2..(n + 1) :
           IsBulletLine(scan_lines[j]) /\ ~IsCheckboxBullet(scan_lines[j])
    /\ C12_Terminates(scan_lines[n + 2])
    /\ \A j \in (n + 2)..Len(scan_lines) : ~has_keyword(scan_lines[j], dependency_keywords)

\* C19: for a body that is a 'Dependencies' label line, then bullet lines
\* indented by any amount, then an unindented paragraph line, the item's
\* dependencies are exactly the texts of those bullets, in order: the
\* paragraph is not in the list, and no bullet after it is, unless a new
\* dependency keyword line occurs.
C19_DependenciesScenario ==
    pc \in {"extract_criteria", "extract_deliverables", "scanned"} =>
        \A n \in 0..Len(scan_lines) :
            C19_Shape(n) => lists.dependencies = [j \in 1..n |-> BulletText(scan_lines[j + 1])]

---------------------------------------------------------------------------
(* Properties of the description.                                          *)

\* the lines of the section's text
C15_Lines == Split(section_text(sections[1]), "\n")

\* the lines before the first bullet line, each without the whitespace
\* around it
C15_Leading ==
    LET lines == C15_Lines
        bullets == {j \in 1..Len(lines) : IsBulletLine(lines[j])}
        first == IF bullets = {} THEN Len(lines) + 1
                 ELSE CHOOSE j \in bullets : \A k \in bullets : j <= k
    IN  [j \in 1..(first - 1) |-> Strip(lines[j])]

\* the leading lines that are non-empty, no property lines and no header lines
C15_NarrativeLines ==
    SelectSeq(C15_Leading,
              LAMBDA l : l # <<>> /\ ~property_pattern_match(l) /\ header_pattern_match(l) = 0)

\* the leading lines that are non-empty, no property lines and do not start
\* with '#'
C15_ProseLines ==
    SelectSeq(C15_Leading,
              LAMBDA l : l # <<>> /\ ~property_pattern_match(l) /\ ~StartsWith(l, <<"#">>))

\* C15 as claimed: an item's description is the concatenation, in order, of
\* the body lines that are non-empty, no property lines, no header lines and
\* before the first bullet line of the section, and it is empty when there is
\* no such line.
C15_AsClaimed ==
    ItemParsed => items[1].description = Join(C15_NarrativeLines, <<" ">>)

\* C15, amended: the description is those lines, trimmed and joined by single
\* spaces, where a line that starts with '#' counts as a header line; when
\* there is no such line, it is the value extracted for the section's
\* description property if there is one, and empty otherwise.
C15_Description ==
    ItemParsed =>
        LET prose == C15_ProseLines
            values == C9_Values(KEY_description)
        IN  items[1].description =
                IF prose # <<>> THEN Join(prose, <<" ">>)
                ELSE IF values # <<>> THEN values[Len(values)][2]
                ELSE <<>>

\* an item whose section has a Description property, prose before its first
\* bullet line and prose after it
C15_Witness ==
    /\ ItemParsed
    /\ KEY_description \in C9_MatchKeys
    /\ C15_ProseLines # <<>>
    /\ Len(C15_Leading) + 1 < Len(C15_Lines)
    /\ items[1].description = <<"p","r","o","s","e">>

---------------------------------------------------------------------------
(* Properties of repeated parsing.                                         *)

\* C16: parsing the same text twice with one parser gives structurally
\* identical forests (titles, kinds, properties, lists and tree shape), or the
\* same exception: the first parse leaves nothing that changes the second.
C16_ReparseIdentical ==
    (pc \in {"done", "raised"} /\ returned # <<>>) => Outcome = returned[1]

\* the second parse of a document has returned a forest of two roots, the
\* first of them with children
C16_Witness ==
    /\ pc = "done"
    /\ returned # <<>>
    /\ Len(result) = 2
    /\ items[result[1]].sub_items # <<>>

---------------------------------------------------------------------------
(* Properties of the scenario documents.                                   *)

\* C18: for a document with the front matter milestone 'Sprint 1', a section
\* '# Epic: Auth' and the sections '### Issue 1: Login' and '### Issue 2:
\* Logout', each with '**Priority**: High' and an acceptance criteria list of
\* two bullets, parse_content returns exactly one root, an Epic titled 'Epic:
\* Auth', with exactly two sub_items, Issues, each with priority 'High', two
\* acceptance criteria and metadata['milestone'] = 'Sprint 1'.
C18_ScenarioA ==
    Returned =>
        /\ Len(result) = 1
        /\ to_dict(result[1]).type = EPIC
        /\ to_dict(result[1]).title = <<"E","p","i","c",":"," ","A","u","t","h">>
        /\ Len(to_dict(result[1]).sub_items) = 2
        /\ \A k \in 1..Len(to_dict(result[1]).sub_items) :
               LET issue == to_dict(result[1]).sub_items[k]
               IN  /\ issue.type = ISSUE
                   /\ issue.priority = <<"H","i","g","h">>
                   /\ Len(issue.acceptance_criteria) = 2
                   /\ KEY_milestone \in DOMAIN issue.metadata
                   /\ issue.metadata[KEY_milestone] = <<"S","p","r","i","n","t"," ","1">>
                   /\ issue.sub_items = <<>>

\* a document of the scenario, with a quoted milestone, a bolded label in the
\* first Issue and checkbox bullets in the second, has been parsed
C18_Witness ==
    /\ Returned
    /\ StartsWith(document, FrontMatterBlock(<<"m","i","l","e","s","t","o","n","e",":"," ","\"","S","p","r","i","n","t"," ","1","\"">>))
    /\ Len(items) = 3
    /\ items[2].acceptance_criteria = <<<<"a">>, <<"b">>>>
    /\ <<"a","c","c","e","p","t","a","n","c","e","_","c","r","i","t","e","r","i","a">> \in DOMAIN items[2].metadata
    /\ items[3].acceptance_criteria = <<<<"d","o","n","e">>, <<"d","o","n","e">>>>

---------------------------------------------------------------------------
(* Properties of _split_into_sections.                                     *)

\* the lines of the text handed to _split_into_sections
C20_Lines == Split(content, "\n")

\* the numbers of the header lines
C20_Headers == {i \in 1..Len(C20_Lines) : header_pattern_match(C20_Lines[i]) # 0}

\* the sections whose body holds line i of the text
C20_Owners(i) ==
    {k \in 1..Len(sections) :
        /\ sections[k].line < i
        /\ i <= sections[k].line + Len(sections[k].content)}

\* _split_into_sections has returned
C20_Split == pc = "parse_sections" /\ sec_i = 1

\* C20: _split_into_sections returns one section per header line, in document
\* order; a section's body is the lines strictly between its header and the
\* next header line (or the end of the text), unchanged; a line before the
\* first header is in no section, and a line after it that is no header is in
\* exactly one.
C20_Sections ==
    C20_Split =>
        /\ Len(sections) = Cardinality(C20_Headers)
        /\ \A k \in 1..Len(sections) :
               LET next == IF k < Len(sections) THEN sections[k + 1].line
                           ELSE Len(C20_Lines) + 1
               IN  /\ sections[k].line \in C20_Headers
                   /\ sections[k].line < next
                   /\ sections[k].content = SubSeq(C20_Lines, sections[k].line + 1, next - 1)
                   /\ \A i \in (sections[k].line + 1)..(next - 1) : i \notin C20_Headers
        /\ \A i \in (1..Len(C20_Lines)) \ C20_Headers :
               IF \E h \in C20_Headers : h < i
               THEN \E k \in 1..Len(sections) :
                        /\ C20_Owners(i) = {k}
                        /\ sections[k].content[i - sections[k].line] = C20_Lines[i]
               ELSE C20_Owners(i) = {}

\* a text that starts with a line before the first header has been split
\* into two sections, the first of them with a body line kept with the
\* whitespace around it
C20_Witness ==
    /\ C20_Split
    /\ Len(sections) = 2
    /\ sections[1].line = 2
    /\ sections[1].content = <<<<" ","t"," ">>>>

---------------------------------------------------------------------------
(* Properties of calls that run at the same time.                          *)

\* the item at index i of the objects its, with its sub_items in its place
RECURSIVE C21_Tree(_, _)
C21_Tree(its, i) ==
    [its[i] EXCEPT !.sub_items = [k \in 1..Len(@) |-> C21_Tree(its, @[k])]]

\* _build_hierarchy run from item i on with nothing else running
RECURSIVE C21_BuildHierarchy(_, _, _, _)
C21_BuildHierarchy(its, i, stk, hier) ==
    IF i > Len(its) THEN [items |-> its, result |-> hier]
    ELSE IF stk # <<>> /\ ~_should_be_parent(its[Top(stk)], its[i])
         THEN C21_BuildHierarchy(its, i, SubSeq(stk, 1, Len(stk) - 1), hier)
    ELSE LET placed == Place(its, hier, stk, i)
         IN  C21_BuildHierarchy(placed.items, i + 1,
                 IF CanHaveChildren(its[i]) THEN Append(stk, i) ELSE stk,
                 placed.hierarchy)

\* what parse_content(text) gives when it runs alone
C21_Alone(text) ==
    LET global_metadata == _extract_metadata(text)
        secs == _split_into_sections(Strip(metadata_pattern_sub(text)))
        first == [k \in 1..Len(secs) |-> parse_section_outcome(secs[k], global_metadata)]
        built == C21_BuildHierarchy(C7_ItemsOf(secs, 1, global_metadata), 1, <<>>, <<>>)
    IN  IF \E k \in 1..Len(secs) : first[k] = "TypeError"
        THEN [raised |-> "TypeError", forest |-> <<>>]
        ELSE [raised |-> "none",
              forest |-> [k \in 1..Len(built.result) |->
                             C21_Tree(built.items, built.result[k])]]

\* what call t gave its caller
C21_Outcome(t) ==
    IF frames[t].pc = "raised" THEN [raised |-> frames[t].exc, forest |-> <<>>]
    ELSE [raised |-> "none",
          forest |-> [k \in 1..Len(frames[t].result) |->
                         C21_Tree(frames[t].items, frames[t].result[k])]]

\* C21: two calls of parse_content on two documents, on threads of their own
\* and on one parser or on two, interleaved in any way, each give what the
\* call gives when it runs alone (the same forest, or the same exception).
C21_Independent ==
    \A t \in DOMAIN frames :
        frames[t].pc \in {"done", "raised"} =>
            C21_Outcome(t) = C21_Alone(frames[t].document)

\* on one parser and on different documents, the second call has returned
\* its forest while the first, with one item created, is between two sections
C21_Witness ==
    /\ frames # <<>>
    /\ frames[1].self = frames[2].self
    /\ frames[1].document # frames[2].document
    /\ frames[2].pc = "done" /\ frames[2].result # <<>>
    /\ frames[1].pc = "parse_sections"
    /\ frames[1].sec_i = 2 /\ Len(frames[1].sections) >= 2 /\ Len(frames[1].items) = 1

---------------------------------------------------------------------------
(* Properties of the loop of _build_hierarchy.                             *)

\* the greatest of a set of naturals, 0 for the empty set
C22_Max(S) == IF S = {} THEN 0 ELSE CHOOSE m \in S : \A n \in S : n <= m

\* how many levels the tree below item i has, i included (n bounds the walk)
RECURSIVE C22_Height(_, _)
C22_Height(i, n) ==
    IF n = 0 THEN 0
    ELSE 1 + C22_Max({C22_Height(k, n - 1) : k \in Range(items[i].sub_items)})

\* how many levels the forest built so far has
C22_Depth == C22_Max({C22_Height(i, Len(items)) : i \in Range(hierarchy)})

\* C22: in the loop of _build_hierarchy, before and after every item, the
\* stack holds only Epics and Issues, the kinds go strictly down from its
\* bottom to its top, every element above the bottom is a child of the
\* element below it, and the stack is at most 2 deep and never deeper than
\* the forest built so far.
C22_StackShape ==
    pc = "hier_loop" =>
        /\ \A k \in 1..Len(stack) : items[stack[k]].item_type \in {EPIC, ISSUE}
        /\ \A k \in 1..(Len(stack) - 1) :
               /\ Rank(items[stack[k + 1]].item_type) < Rank(items[stack[k]].item_type)
               /\ stack[k + 1] \in Range(items[stack[k]].sub_items)
        /\ Len(stack) <= 2
        /\ Len(stack) <= C22_Depth

\* the fourth item is next, an Epic and an Issue are on the stack and the
\* forest is three levels deep
C22_Witness ==
    /\ pc = "hier_loop"
    /\ item_i = 4
    /\ Len(stack) = 2
    /\ C22_Depth = 3

---------------------------------------------------------------------------
(* Properties of the three scanners run on the same lines.                 *)

\* a line is a label line for every kind or for none
C23_SameLabels ==
    \A n \in 1..Len(scan_lines), kind \in ScanKinds :
        has_keyword(scan_lines[n], scan_keywords(kind))
            <=> has_keyword(scan_lines[n], dependency_keywords)

\* two turns of two scanners on one line go the same way: collecting or not
\* before the turn, collecting or not after it, the line collected or not
C23_SameTurn(j, k) ==
    /\ log[j].collecting = log[k].collecting
    /\ log[j].still = log[k].still
    /\ (log[j].appended = <<>>) = (log[k].appended = <<>>)

\* a line that holds a checkbox marker and either does not start with a
\* bullet marker or has nothing but checkbox markers after it
C23_CheckboxLine(line) ==
    /\ Contains(line, <<"["," ","]">>) \/ Contains(line, <<"[","x","]">>)
    /\ ~IsBulletLine(line) \/ Strip(strip_checkboxes(BulletText(line), 1)) = <<>>

\* C23, as claimed: on lines that are label lines for every kind or for none,
\* the three scanners enter and leave the collecting state at the same lines
\* and collect the same lines.
C23_AsClaimed ==
    C23_SameLabels =>
        \A j, k \in 1..Len(log) : log[j].line = log[k].line => C23_SameTurn(j, k)

\* C23, corrected: _extract_dependencies and _extract_deliverables do so; and
\* _extract_criteria goes with them up to the first line holding a checkbox
\* marker that does not start with a bullet marker or has no text of its own.
C23_SameMachine ==
    LET lines == scan_lines
    IN  C23_SameLabels =>
            \A j, k \in 1..Len(log) :
                (/\ log[j].line = log[k].line
                 /\ \/ "extract_criteria" \notin {log[j].kind, log[k].kind}
                    \/ \A n \in 1..log[j].line : ~C23_CheckboxLine(lines[n]))
                => C23_SameTurn(j, k)

\* all three scanners have collected the second of three lines after a label
\* line, and left their sections at the third
C23_Witness ==
    /\ Scanned
    /\ Len(scan_lines) = 3
    /\ \A kind \in ScanKinds : Len(lists[scan_field(kind)]) = 1
    /\ Cardinality({k \in 1..Len(log) : log[k].line = 3 /\ log[k].collecting /\ ~log[k].still}) = 3

---------------------------------------------------------------------------
(* Properties of what _build_hierarchy writes.                             *)

\* how often item i occurs in the sub_items lists of all the items
C24_TimesAppended(i) ==
    LET counts == [p \in 1..Len(items) |-> Occurrences(items[p].sub_items, i)]
        sum[p \in 0..Len(items)] == IF p = 0 THEN 0 ELSE sum[p - 1] + counts[p]
    IN  sum[Len(items)]

\* C24: from the call of _build_hierarchy to its return, every item is as
\* _parse_section created it except for its sub_items (title, kind,
\* description, labels, assignees, milestone, priority, estimated_effort,
\* dependencies, acceptance_criteria, deliverables and metadata the same, the
\* external ids unset), and an item is in a sub_items list at most once.
C24_OnlySubItems ==
    (pc \in {"build_hierarchy", "hier_loop"} \/ Returned) =>
        /\ [i \in 1..Len(items) |-> [items[i] EXCEPT !.sub_items = <<>>]]
               = C7_ItemsOf(sections, 1, metadata)
        /\ \A i \in 1..Len(items) :
               /\ items[i].github_number = None
               /\ items[i].notion_id = None
               /\ C24_TimesAppended(i) <= 1

\* a forest has been returned in which an Epic with a description and with
\* the document's milestone in its metadata holds two Issues
C24_Witness ==
    /\ Returned
    /\ \E i \in Range(result) :
           /\ Len(items[i].sub_items) = 2
           /\ items[i].description # <<>>
           /\ KEY_milestone \in DOMAIN items[i].metadata

---------------------------------------------------------------------------
(* Properties of the program as it runs.                                   *)

\* the run is over: parse_file or _build_hierarchy has returned or raised,
\* or the last list scanner has returned
C25_Ended == pc \in {"done", "raised", "scanned"}

\* how many stages are still to come
C25_Stage ==
    CASE pc = "parse_file" -> 6
      [] pc = "extract_metadata" -> 5
      [] pc = "remove_metadata" -> 4
      [] pc \in {"split", "extract_dependencies"} -> 3
      [] pc \in {"parse_sections", "extract_criteria"} -> 2
      [] pc \in {"build_hierarchy", "hier_loop", "extract_deliverables"} -> 1
      [] C25_Ended -> 0

\* how many stages are still to come while the scanner `kind` runs
C25_StageOf(kind) ==
    CASE kind = "extract_dependencies" -> 3
      [] kind = "extract_criteria" -> 2
      [] kind = "extract_deliverables" -> 1

\* how many steps the running stage has taken: the turns of the loop over
\* the sections or over the lines, and in _build_hierarchy two steps per item
\* placed, less one for every item that can still be popped
C25_Taken ==
    CASE pc = "parse_sections" -> sec_i
      [] pc \in ScanKinds -> scan.i
      [] pc = "hier_loop" -> 2 * item_i - Len(stack)
      [] OTHER -> 0

\* how many steps the running stage can take at most, which depends on the
\* sections and on the number of items alone
C25_AtMost ==
    CASE pc = "parse_sections" -> Len(sections) + 1
      [] pc \in ScanKinds -> Len(scan_lines) + 1
      [] pc = "hier_loop" -> 2 * Len(items) + 2
      [] OTHER -> 0

\* how many items the loop of _build_hierarchy has pushed
C25_Pushes == Cardinality({i \in 1..(item_i - 1) : CanHaveChildren(items[i])})

\* in _build_hierarchy, no more pops than pushes and no more pushes than items
C25_PopsBounded ==
    (pc = "hier_loop" \/ Returned) =>
        /\ pops + Len(stack) = C25_Pushes
        /\ C25_Pushes <= Len(items)

\* the turns a list scanner has taken so far are on the lines 1, 2, ... in
\* order, and on every line once when the scanner has returned
C25_LinesOnce ==
    \A kind \in ScanKinds :
        LET turns == SelectSeq(log, LAMBDA e : e.kind = kind)
        IN  /\ \A k \in 1..Len(turns) : turns[k].line = k
            /\ (log # <<>> /\ C25_Stage < C25_StageOf(kind)) => Len(turns) = Len(scan_lines)

\* C25: every run ends: a step takes the run to a later stage or is one more
\* step of the running stage, which leaves the sections and the number of
\* items as they are, and a stage never takes more steps than the sections
\* or the items allow; _build_hierarchy, once called, returns; a list scan
\* takes one turn per line; and the pop loop of _build_hierarchy runs, over
\* the whole call, at most as often as items were pushed, which is at most
\* once per item.
C25_Terminates ==
    /\ [][\/ C25_Stage' < C25_Stage
           \/ /\ C25_Stage' = C25_Stage
              /\ C25_Taken' > C25_Taken
              /\ sections' = sections
              /\ pc = "hier_loop" => Len(items') = Len(items)]_vars
    /\ [](C25_Taken <= C25_AtMost /\ C25_PopsBounded /\ C25_LinesOnce)
    /\ (pc = "build_hierarchy") ~> C25_Ended

\* _build_hierarchy has returned after two pops in a row, for an Epic that
\* came after an Epic and its Issue
C25_Witness ==
    /\ Returned
    /\ pops >= 2
    /\ \E i \in 3..Len(items) :
           /\ items[i].item_type = EPIC
           /\ items[i - 1].item_type = ISSUE
           /\ items[i - 2].item_type = EPIC

---------------------------------------------------------------------------
(* Properties of the forest when it is flattened again.                    *)

\* add_item_and_children(item) of WorkPlanManager._flatten_items: what it
\* appends to flat_items, for the item at index i (n bounds the walk)
RECURSIVE add_item_and_children(_, _)
add_item_and_children(i, n) ==
    LET subs == items[i].sub_items
        walk[k \in 0..Len(subs)] ==
            IF k = 0 THEN <<>>
            ELSE walk[k - 1] \o add_item_and_children(subs[k], n - 1)
    IN  IF n = 0 THEN <<>> ELSE <<i>> \o walk[Len(subs)]

\* WorkPlanManager._flatten_items(roots)
_flatten_items(roots) ==
    LET walk[k \in 0..Len(roots)] ==
            IF k = 0 THEN <<>>
            ELSE walk[k - 1] \o add_item_and_children(roots[k], Len(items))
    IN  walk[Len(roots)]

\* C26: for items of any kinds, flattening the forest that _build_hierarchy
\* returns, parents before children and children in their order, gives the
\* items in the order they were handed in, each once.
C26_FlattenIsInput ==
    Returned => _flatten_items(result) = [i \in 1..Len(items) |-> i]

\* a forest of two trees has been returned, the second of them three levels
\* deep
C26_Witness ==
    /\ Returned
    /\ Len(items) = 4
    /\ Len(result) = 2
    /\ \E i \in Range(result) : items[i].sub_items # <<>> /\ i > 1
    /\ \E e, f \in Edges : e[2] = f[1]

---------------------------------------------------------------------------
(* Properties of the forest that parse_content returns.                    *)

\* the Epics among the items before item i
C27_EpicsBefore(i) == {j \in 1..(i - 1) : items[j].item_type = EPIC}

\* C27: in what parse_content returns, every item is an Epic or an Issue,
\* every Epic is a root, every Issue that comes after an Epic is a child of
\* the nearest Epic before it, whatever sections lie between the two, every
\* Issue with no Epic before it is a root, and no child has children.
C27_EpicsAndTheirIssues ==
    Returned =>
        /\ \A i \in 1..Len(items) :
               LET epics == C27_EpicsBefore(i)
               IN  /\ items[i].item_type \in {EPIC, ISSUE}
                   /\ items[i].item_type = EPIC => i \in Range(result)
                   /\ (items[i].item_type = ISSUE /\ epics = {}) => i \in Range(result)
                   /\ (items[i].item_type = ISSUE /\ epics # {}) =>
                          i \in Range(items[C22_Max(epics)].sub_items)
        /\ \A e, f \in Edges : e[2] # f[1]

\* an Issue has been made the child of an Epic with a level-1 section that
\* is no Epic between the two, after an Issue that is a root
C27_Witness ==
    /\ Returned
    /\ Len(sections) = 4
    /\ Len(items) = 3
    /\ items[1].item_type = ISSUE /\ 1 \in Range(result)
    /\ items[2].item_type = EPIC
    /\ sections[3].level = 1
    /\ 3 \in Range(items[2].sub_items)

---------------------------------------------------------------------------
(* Properties of a section that holds headers.                             *)

\* the lines of the text that is split
C28_Lines == Split(content, "\n")

\* the header lines below the first line
C28_SubHeaders == {i \in 2..Len(C28_Lines) : header_pattern_match(C28_Lines[i]) # 0}

\* the first section cut off before its first sub-header
C28_OwnSection ==
    LET lines == C28_Lines
        subs == C28_SubHeaders
        first == IF subs = {} THEN Len(lines) + 1
                 ELSE CHOOSE i \in subs : \A j \in subs : i <= j
    IN  [level |-> header_pattern_match(lines[1]), title |-> header_title(lines[1]),
         content |-> SubSeq(lines, 2, first - 1), line |-> 1]

\* the item of the first section is made of the lines before its first
\* sub-header alone
C28_OwnLinesOnly ==
    [items[1] EXCEPT !.sub_items = <<>>] = section_item(C28_OwnSection, ISSUE, metadata)

\* the sub-headers that are item headers themselves
C28_ItemHeaders ==
    {i \in C28_SubHeaders :
        \/ C5_IsEpic(header_pattern_match(C28_Lines[i]), header_title(C28_Lines[i]))
        \/ C5_IsIssue(header_pattern_match(C28_Lines[i]), header_title(C28_Lines[i]))}

\* C28, as claimed: the lines after a sub-header of any level contribute
\* nothing to the enclosing item, and the sub-header's section makes no item.
C28_AsClaimed ==
    Returned => (C28_OwnLinesOnly /\ Len(items) = 1)

\* C28, corrected: the lines after a sub-header of any level contribute
\* nothing to the enclosing item; the sub-header's section makes no item
\* unless the sub-header is an item header itself (level 1 with an epic
\* word, level 3 with 'issue' or 'task').
C28_SubHeaderSections ==
    Returned =>
        /\ C28_OwnLinesOnly
        /\ Len(items) = 1 + Cardinality(C28_ItemHeaders)
        /\ \A k \in 2..Len(items) : items[k].origin \in C28_ItemHeaders

\* a checkbox bullet under `#### Acceptance Criteria` has gone to a section
\* that made no item, and the Issue above it has no acceptance criteria
C28_Witness ==
    /\ Returned
    /\ Len(items) = 1
    /\ items[1].acceptance_criteria = <<>>
    /\ Len(sections) = 2
    /\ sections[2].level = 4
    /\ Contains(Lower(sections[2].title), <<"c","r","i","t","e","r","i","a">>)
    /\ \E k \in 1..Len(sections[2].content) : IsCheckboxBullet(sections[2].content[k])

---------------------------------------------------------------------------
(* Properties of the fields that the front matter also names.              *)

\* the value of the last bolded property with key k of the section, or
\* default when the section has no such property
C29_Own(k, default) ==
    LET values == C9_Values(k)
    IN  IF values = <<>> THEN default ELSE values[Len(values)][2]

\* C29: an item's milestone and priority are taken from the item's own bolded
\* properties only: when the front matter names one of them and the section
\* does not, the field is unset (milestone) or 'medium' (priority), while the
\* item's metadata holds the front matter's value.
C29_FieldsFromOwnProperties ==
    ItemParsed =>
        /\ items[1].milestone = C29_Own(KEY_milestone, None)
        /\ items[1].priority = C29_Own(KEY_priority, STR_medium)
        /\ \A k \in {KEY_milestone, KEY_priority} :
               (k \in DOMAIN metadata.val /\ k \notin C9_MatchKeys) =>
                   /\ k \in DOMAIN items[1].metadata
                   /\ items[1].metadata[k] = metadata.val[k]

\* the front matter gives a priority, the section gives a milestone only: the
\* item is of priority 'medium' and its metadata holds the front matter's
C29_Witness ==
    /\ ItemParsed
    /\ KEY_priority \in DOMAIN metadata.val
    /\ C9_MatchKeys = {KEY_milestone}
    /\ items[1].priority = STR_medium
    /\ items[1].metadata[KEY_priority] = metadata.val[KEY_priority]
    /\ items[1].metadata[KEY_priority] # STR_medium

---------------------------------------------------------------------------
(* Properties of a property key that occurs more than once.                *)

\* the values of the lines of the section that are, each by itself, a bolded
\* property line with key k, in order
C30_LineValues(k) ==
    LET lines == C15_Lines
        at == [j \in 1..Len(lines) |-> property_pattern_at(lines[j], 1)]
        own == SelectSeq(at, LAMBDA m : m.ok /\ property_key(m.key) = k)
    IN  [j \in 1..Len(own) |-> Strip(own[j].value)]

\* the last of a non-empty sequence
C30_Last(values) == values[Len(values)]

\* C30: a section with a bolded `**Description**: X` line has description X,
\* in the item and in its metadata, when it has no prose before its first
\* bullet line, and that prose otherwise; of several lines with one property
\* key the last gives the value that is kept.
C30_LastOccurrence ==
    ItemParsed =>
        /\ LET prose == C15_ProseLines
               values == C30_LineValues(KEY_description)
               expected == IF prose # <<>> THEN Join(prose, <<" ">>)
                           ELSE C30_Last(values)
           IN  values # <<>> =>
                   /\ items[1].description = expected
                   /\ KEY_description \in DOMAIN items[1].metadata
                   /\ items[1].metadata[KEY_description] = expected
        /\ \A k \in {KEY_priority, KEY_milestone} :
               LET values == C30_LineValues(k)
               IN  Len(values) >= 2 =>
                       /\ k \in DOMAIN items[1].metadata
                       /\ items[1].metadata[k] = C30_Last(values)
        /\ Len(C30_LineValues(KEY_priority)) >= 2 =>
               items[1].priority = C30_Last(C30_LineValues(KEY_priority))

===========================================================================
